---- MODULE Spec2Model ----
(***************************************************************************)
(* Model of the batch pipeline of aclimatise_automation:                   *)
(*   batch.py  new_definitions  (the coordinator, pool or sequential)      *)
(*   tool.py   commands_from_package (the per-unit processor)              *)
(*   util.py   get_package_binaries, aclimatise_exe                        *)
(* The container runtime, the registry and the introspection library are   *)
(* external: each call to them is a nondeterministic choice of outcome.    *)
(*                                                                         *)
(* Specifications:                                                         *)
(*   Spec           new_definitions with its commands_from_package calls   *)
(*   ModesSpec      new_definitions with fork=False and fork=True together *)
(*   PoolSpec       the worker pool, its chunks and maxtasksperchild       *)
(*   LogSpec        the log records, the queue and the listener            *)
(*   DiscoverySpec  get_package_binaries for every manifest                *)
(*   CondaSpec      bioconda_cli: the pool of the conda variant, its lock  *)
(*   CondaLiveSpec  CondaSpec with fairness of the critical section        *)
(*   ReanalyseSpec  reanalyse with its reanalyse_tool calls                *)
(*   SelectSpec     latest_biocontainers on the result of a conda search   *)
(*   EnvSpec        bioconda_cli: activate_env over the units of a worker  *)
(*   WrapperSpec    wrapper_from_command under each of its callers         *)
(*   InstallSpec    bioconda_cli: install and its exit_on_failure switch   *)
(***************************************************************************)
EXTENDS Integers, Sequences, FiniteSets, TLC

VARIABLES
    run,            \* number of the current new_definitions call
    fork,           \* its fork argument
    newPkgs,        \* new_meta.packages of the current call (a set of lines)
    last_meta,      \* whether the last_meta argument is given
    oldPkgs,        \* old_meta.packages ({} when last_meta is not given)
    to_aclimatise,  \* the set computed at batch.py:83-89
    todo,           \* lines of to_aclimatise not yet handed to a task
    calls,          \* line -> number of commands_from_package calls in this call
    phase,          \* "running", "returned" or "raised": state of new_definitions
    failed,         \* pool mode: a task of the map has raised
    proc,           \* process -> the commands_from_package invocation it runs
    dirs,           \* output sub-directories that exist, as <<package, version>>
    files,          \* artifacts on disk, as <<<<package, version>>, binary>>
    passed,         \* <<package, version>> -> invocations that passed the mkdir
    wrote,          \* <<package, version>> -> the invocations that wrote into it
    dirsAtStart,    \* dirs when the current new_definitions call began
    filesAtStart,   \* files when the current new_definitions call began
    \* get_package_binaries on its own (DiscoverySpec)
    conda_meta,     \* the files of the container that match conda-meta/<package>*.json
    stdout,         \* the standard output of the cat command of exec_run
    binaries,       \* the outcome of get_package_binaries
    \* the worker pool of new_definitions on its own (PoolSpec)
    processes,      \* the processes argument: the size of the pool
    max_tasks,      \* the max_tasks argument, passed as maxtasksperchild
    taskq,          \* the tasks of pool.map not yet taken, each a chunk of units
    workers,        \* slot of the pool -> the worker process that fills it
    \* the logging of the tasks on its own (LogSpec)
    log_fork,       \* the fork argument of the call
    log_tasks,      \* the lines of the call
    tasks_left,     \* lines not yet handed to a task
    emitted,        \* the records emitted so far, as <<line, position>>
    running,        \* process -> the task it runs and the position in its records
    registry,       \* process -> logger name -> number of its queue handlers
    log_queue,      \* the logging queue: the records put and not yet taken
    received,       \* record -> times the listener has passed it to the handlers
    direct,         \* record -> times a process has passed it to the handlers itself
    listener,       \* "running", "stopping" or "stopped"
    \* the conda variant, bioconda_cli (CondaSpec)
    conda_todo,     \* lines of the package file not yet handed to a worker
    conda_stage,    \* worker -> the point its commands_from_package has reached
    conda_exes,     \* worker -> binaries of its package still to explore
    lock,           \* the global multiprocessing.Lock: its holder, or 0
    prefix,         \* worker -> the name of its temporary prefix, or NoPrefix
    tmp,            \* the names of the temporary directories that exist
    \* new_definitions in both modes on the same inputs (ModesSpec)
    services,       \* unit -> how the external services behave for it
    seq_mode,       \* the call with fork=False: lines left, directory, state
    pool_mode,      \* the call with fork=True: lines left, directory, state
    \* reanalyse and reanalyse_tool (ReanalyseSpec)
    re_fork,        \* the fork argument of reanalyse
    wrapper_root,   \* whether a wrapper_root was given
    new_meta,       \* aclimatise_version of the new metadata file, or NoMeta
    old_meta,       \* aclimatise_version of the old metadata file, or NoMeta
    stored,         \* file under dir -> its suffix and what it holds
    wrapper_dir,    \* files whose wrappers were written under wrapper_root
    to_reanalyse,   \* the files handed to the map or to the for loop
    re_left,        \* those of them not yet handed to reanalyse_tool
    opened,         \* files that a reanalyse_tool call has opened
    rewritten,      \* files that a reanalyse_tool call has saved
    re_logs,        \* records emitted, as <<file or Coordinator, level, message>>
    re_raised,      \* files whose reanalyse_tool call has raised
    stored_at_start,\* stored, as it was when reanalyse was called
    re_listener,    \* the QueueListener of reanalyse: "off", "running" or "stopped"
    re_phase,       \* "start", "running", "skipped", "returned" or "raised"
    \* latest_biocontainers (SelectSpec)
    search_json,    \* what json.loads makes of the output of the search
    filter_r,       \* the filter_r argument
    filter_type,    \* the filter_type argument
    images,         \* what the call gave: pending, returned with a list, or raised
    \* activate_env in one worker process (EnvSpec)
    environ,        \* os.environ: variable -> value, or Unset
    env_backup,     \* the copy that activate_env took on entry
    env_before,     \* os.environ as it was before the block of the current unit
    env_unit,       \* number of the current unit of the worker
    env_stage,      \* "idle", "inside", "after" or "entry_raised"
    \* wrapper_from_command and its callers (WrapperSpec)
    wr_caller,      \* the function that is called
    wr_root,        \* the directory that holds <package>/<version>/<name>.yml
    wr_wrapper_root,\* the wrapper_root or output_dir argument, or None
    wr_tree,        \* the commands of cmd.command_tree(), in its order
    wr_fail,        \* the <<command, generator>> whose save_to_file raises, or None
    wr_mkdir_ok,    \* whether output_path.mkdir succeeds
    wr_output,      \* output_path, or NoPath before it is computed
    wr_idx,         \* position of the loop in wr_tree
    wr_written,     \* the wrapper files written, as <<directory, <<as_filename, suffix>>>>
    wr_logs,        \* the levels of the records logged by wrapper_from_command
    wr_stage,       \* "start", "loop", "returned" or "raised"
    \* install of the conda variant (InstallSpec)
    in_variant,     \* the module whose install runs: "main" or "__init__"
    exit_on_failure,\* the exit_on_failure argument
    in_todo,        \* lines of the package file not yet handed to a task
    in_stage,       \* position of the current commands_from_package call
    in_exes,        \* binaries of the current package still to explore
    in_installed,   \* whether the transaction of the current package was executed
    in_failures,    \* the steps of the current call that have failed
    in_results,     \* per finished call: <<its failed steps, its outcome>>
    in_phase        \* "running", "returned" or "raised": state of install

\* the variables of new_definitions and of the invocations of commands_from_package
batchVars == <<run, fork, newPkgs, last_meta, oldPkgs, to_aclimatise, todo, calls, phase,
               failed, proc, dirs, files, passed, wrote, dirsAtStart, filesAtStart>>

discoveryVars == <<conda_meta, stdout, binaries>>

poolVars == <<processes, max_tasks, taskq, workers>>

logVars == <<log_fork, log_tasks, tasks_left, emitted, running, registry, log_queue, received, direct, listener>>

condaVars == <<conda_todo, conda_stage, conda_exes, lock, prefix, tmp>>

modesVars == <<services, seq_mode, pool_mode>>

installVars == <<in_variant, exit_on_failure, in_todo, in_stage, in_exes, in_installed,
                 in_failures, in_results, in_phase>>

wrapperVars == <<wr_caller, wr_root, wr_wrapper_root, wr_tree, wr_fail, wr_mkdir_ok,
                 wr_output, wr_idx, wr_written, wr_logs, wr_stage>>

envVars == <<environ, env_backup, env_before, env_unit, env_stage>>

selectVars == <<search_json, filter_r, filter_type, images>>

reanalyseVars == <<re_fork, wrapper_root, new_meta, old_meta, stored, wrapper_dir,
                   to_reanalyse, re_left, opened, rewritten, re_logs, re_raised,
                   stored_at_start, re_listener, re_phase>>

\* the variables that the steps of new_definitions leave alone
others == <<discoveryVars, poolVars, logVars, condaVars, modesVars, reanalyseVars,
           selectVars, envVars, wrapperVars, installVars>>

vars == <<batchVars, others>>

\* the values of the variables of a part that is not running
Unread    == [kind |-> "unread", paths |-> <<>>]
NotCalled == [done |-> FALSE, raised |-> FALSE, exes |-> <<>>]

DiscoveryOff == conda_meta = <<>> /\ stdout = Unread /\ binaries = NotCalled

PoolOff == processes = 0 /\ max_tasks = 0 /\ taskq = <<>> /\ workers = <<>>

LogOff ==
    /\ log_fork = FALSE /\ log_tasks = {} /\ tasks_left = {} /\ emitted = {}
    /\ running = <<>> /\ registry = <<>>
    /\ log_queue = <<>> /\ received = <<>> /\ direct = <<>> /\ listener = "off"

CondaOff ==
    /\ conda_todo = 0 /\ conda_stage = <<>> /\ conda_exes = <<>> /\ lock = 0
    /\ prefix = <<>> /\ tmp = {}

ModesOff == services = <<>> /\ seq_mode = <<>> /\ pool_mode = <<>>

ReanalyseOff ==
    /\ re_fork = FALSE /\ wrapper_root = FALSE /\ new_meta = <<>> /\ old_meta = <<>>
    /\ stored = <<>> /\ wrapper_dir = {} /\ to_reanalyse = {} /\ re_left = {}
    /\ opened = {} /\ rewritten = {} /\ re_logs = {} /\ re_raised = {}
    /\ stored_at_start = <<>> /\ re_listener = "off" /\ re_phase = "off"

InstallOff ==
    /\ in_variant = "off" /\ exit_on_failure = FALSE /\ in_todo = 0 /\ in_stage = "off"
    /\ in_exes = 0 /\ in_installed = FALSE /\ in_failures = {} /\ in_results = <<>>
    /\ in_phase = "off"

WrapperOff ==
    /\ wr_caller = "off" /\ wr_root = <<>> /\ wr_wrapper_root = <<>> /\ wr_tree = <<>>
    /\ wr_fail = <<>> /\ wr_mkdir_ok = TRUE /\ wr_output = <<>> /\ wr_idx = 0
    /\ wr_written = {} /\ wr_logs = <<>> /\ wr_stage = "off"

EnvOff ==
    /\ environ = <<>> /\ env_backup = <<>> /\ env_before = <<>>
    /\ env_unit = 0 /\ env_stage = "off"

SelectOff == search_json = <<>> /\ filter_r = FALSE /\ filter_type = {} /\ images = <<>>

OthersOff ==
    /\ DiscoveryOff /\ PoolOff /\ LogOff /\ CondaOff /\ ModesOff /\ ReanalyseOff
    /\ SelectOff /\ EnvOff /\ WrapperOff /\ InstallOff

----------------------------------------------------------------------------
\* Bounds of the model
MaxRuns      == 2      \* consecutive new_definitions calls on one output directory
MaxProcesses == 2      \* size of the worker pool

\* The 60 second ceiling of the readiness wait and its one second poll
ReadyCeiling == 60
PollInterval == 1

----------------------------------------------------------------------------
\* Lines of the metadata files, as character sequences
LineA   == <<"a", "=", "1">>
LineA2  == <<" ", "a", "=", "1">>
LineB   == <<"b", "=", "2">>
LineBad == <<"a">>
Lines   == {LineA, LineA2, LineB, LineBad}

\* str.strip()
RECURSIVE lstrip(_)
lstrip(s) == IF s # <<>> /\ Head(s) = " " THEN lstrip(Tail(s)) ELSE s

RECURSIVE rstrip(_)
rstrip(s) == IF s # <<>> /\ s[Len(s)] = " " THEN rstrip(SubSeq(s, 1, Len(s) - 1)) ELSE s

strip(s) == rstrip(lstrip(s))

\* str.split(sep): the list of the parts between the separators
RECURSIVE split(_, _)
split(s, sep) ==
    IF \E i \in 1..Len(s) : s[i] = sep
    THEN LET i == CHOOSE k \in 1..Len(s) : s[k] = sep /\ \A j \in 1..(k - 1) : s[j] # sep
         IN  <<SubSeq(s, 1, i - 1)>> \o split(SubSeq(s, i + 1, Len(s)), sep)
    ELSE <<s>>

\* "package, version = versioned_package.split('=')" unpacks only a list of two
Unpacks(line) == Len(split(strip(line), "=")) = 2

UnitOf(line) == LET p == split(strip(line), "=") IN <<p[1], p[2]>>

Units == {UnitOf(l) : l \in {x \in Lines : Unpacks(x)}}

----------------------------------------------------------------------------
\* Registry responses: the "images" list of a version record
Img(t, u, n) == [image_type |-> t, updated |-> u, image_name |-> n]

Response3 ==
    << Img("Docker", 1, <<"https://", "i1">>),
       Img("Conda",  3, <<"c3">>),
       Img("Docker", 2, <<"http://", "i2">>) >>

\* the same with two images of one timestamp, as the registry lists one build
\* under two names
ResponseTie ==
    << Img("Docker", 1, <<"https://", "i1">>),
       Img("Conda",  3, <<"c3">>),
       Img("Docker", 2, <<"http://", "i2">>),
       Img("Docker", 2, <<"i5">>) >>

\* The outcomes of the external calls that are explored.  The pool (f = TRUE) runs
\* its tasks concurrently and is explored with fewer outcomes per call than the
\* sequential mode.
Responses(f) == IF f THEN {Response3} ELSE {<<>>, ResponseTie}

\* sorted(..., key=updated, reverse=True): stable, descending
RECURSIVE insertDesc(_, _)
insertDesc(x, s) ==
    IF s = <<>> THEN <<x>>
    ELSE IF Head(s).updated >= x.updated THEN <<Head(s)>> \o insertDesc(x, Tail(s))
    ELSE <<x>> \o s

RECURSIVE sortedDesc(_)
sortedDesc(s) ==
    IF s = <<>> THEN <<>>
    ELSE insertDesc(s[Len(s)], sortedDesc(SubSeq(s, 1, Len(s) - 1)))

\* a candidate list that keeps the images of every type
package_images_all(resp) == sortedDesc(resp)

\* tool.py:89-97: the Docker images of the response, most recently updated first
package_images(resp) == sortedDesc(SelectSeq(resp, LAMBDA img : img.image_type = "Docker"))

\* re.sub("https?://", "", image_name)
formatted_image(name) == SelectSeq(name, LAMBDA t : t \notin {"http://", "https://"})

----------------------------------------------------------------------------
\* Outputs of "cat /usr/local/conda-meta/<package>*.json" inside the container
Manifest3 ==
    [kind |-> "json", paths |-> << <<"bin", "x">>, <<"bin", "sub", "n">>, <<"lib", "l">>,
                                   <<"bin", "y">>, <<"z">>, <<"bin", "z">> >>]
Manifest1 ==
    [kind |-> "json", paths |-> << <<"lib", "l">>, <<"bin", "x">> >>]

Manifests(f) ==
    IF f THEN {Manifest1}
    ELSE { [kind |-> "none",    paths |-> <<>>],
           [kind |-> "invalid", paths |-> <<>>],
           [kind |-> "nofiles", paths |-> <<>>],
           [kind |-> "json",    paths |-> <<>>],
           Manifest3 }

\* json.loads(stdout) raises: no output (None), text that is not JSON, or more
\* than one document ("Extra data")
Unparsable(m) == m.kind \in {"none", "invalid", "concat"}

\* a filter that looks at the name of the parent directory only
IsBinary_parentOnly(f) == Len(f) >= 2 /\ f[Len(f) - 1] = "bin"

\* util.py:121-125: f.parent.name == "bin" and len(f.parts) == 2
IsBinary(f) == Len(f) = 2 /\ f[Len(f) - 1] = "bin"

\* get_package_binaries after the exec_run: "raise" for the KeyError on "files"
get_package_binaries(m) ==
    IF Unparsable(m) THEN [raised |-> FALSE, exes |-> <<>>]
    ELSE IF m.kind = "nofiles" THEN [raised |-> TRUE, exes |-> <<>>]
    ELSE LET keep == SelectSeq(m.paths, IsBinary)
         IN  [raised |-> FALSE, exes |-> [k \in 1..Len(keep) |-> keep[k][Len(keep[k])]]]

----------------------------------------------------------------------------
\* The readiness wait: the status reads "starting" for the first k polls, each
\* sleep takes d seconds.  gaveUp tells whether the loop gives up, waited the
\* seconds it has slept.
RECURSIVE PollLoop(_, _, _)
PollLoop(k, d, elapsed) ==
    IF k = 0 THEN [gaveUp |-> FALSE, waited |-> elapsed]
    ELSE IF elapsed + d >= ReadyCeiling THEN [gaveUp |-> TRUE, waited |-> elapsed + d]
    ELSE PollLoop(k - 1, d, elapsed + d)

\* the number of polls for which the status reads "starting"
StartingPolls(f) == IF f THEN {0} ELSE {0, ReadyCeiling - 1, ReadyCeiling, ReadyCeiling + 1}
Statuses == {"running", "created"}

\* whether the calls to the container runtime other than run and kill may raise
MayRaise(f) == ~f

----------------------------------------------------------------------------
\* Processes: 0 is the coordinator itself (fork=False), 1.. are pool workers
Main    == 0
Workers == 1..MaxProcesses
Procs   == {Main} \cup Workers

Idle == [pc |-> "idle", line |-> <<>>, name |-> <<>>, unit |-> <<>>,
         resp |-> <<>>, images |-> <<>>, attempts |-> <<>>, notFound |-> 0,
         container |-> FALSE, waited |-> 0,
         status |-> "none", exes |-> <<>>, i |-> 0, explored |-> <<>>,
         failures |-> {}, passedCheck |-> FALSE,
         discovered |-> FALSE, queried |-> FALSE,
         kills |-> 0, removes |-> 0, rmis |-> 0, killRaised |-> FALSE,
         containerGone |-> FALSE, imageGone |-> FALSE,
         logs |-> {}]

Log(r, logger, level, msg) == [r EXCEPT !.logs = @ \cup {<<logger, level, msg>>}]

\* a finally block that releases without looking at the container
ToFinally_always(r) == [r EXCEPT !.pc = "kill"]

\* the finally block of commands_from_package: nothing to do without a container
ToFinally(r) == [r EXCEPT !.pc = IF r.container THEN "kill" ELSE "returned"]

\* the except block, then the finally block
ToExcept(r) == ToFinally(Log(r, "unit", "warning", <<"exception">>))

Ended(r) == r.pc \in {"idle", "returned", "raised", "killed"}

----------------------------------------------------------------------------
\* new_definitions, batch.py:80-98: the lines to process
ToProcess(new, given, old) == IF given THEN new \ old ELSE new

\* the new and the old metadata files that are explored
NewMetas == {{LineA, LineB}, {LineA, LineA2, LineBad}, {LineB, LineBad}, {LineA2}}
OldMetas == {{}, {LineA}, {LineB, LineBad}}

Init ==
    /\ run = 1
    /\ fork \in BOOLEAN
    /\ newPkgs \in NewMetas
    /\ last_meta \in BOOLEAN
    /\ oldPkgs \in (IF last_meta THEN OldMetas ELSE {{}})
    /\ to_aclimatise = ToProcess(newPkgs, last_meta, oldPkgs)
    /\ todo = to_aclimatise
    /\ calls = [l \in Lines |-> 0]
    /\ phase = "running"
    /\ failed = FALSE
    /\ proc = [w \in Procs |-> Idle]
    /\ dirs = {}
    /\ files = {}
    /\ passed = [u \in Units |-> 0]
    /\ wrote = [u \in Units |-> {}]
    /\ dirsAtStart = {}
    /\ filesAtStart = {}
    /\ OthersOff

\* a step of the invocation run by process w; a raise inside a pool task fails the map
Step(w, r) ==
    /\ proc' = [proc EXCEPT ![w] = r]
    /\ failed' = (failed \/ (fork /\ r.pc = "raised"))

Batch == <<run, fork, newPkgs, last_meta, oldPkgs, to_aclimatise, phase, dirsAtStart, filesAtStart,
           others>>

\* tool.py:71-76: the logger, then the split of the line
Invoke(w, l) ==
    LET r == [Idle EXCEPT !.line = l, !.name = strip(l)]
    IN  /\ todo' = todo \ {l}
        /\ calls' = [calls EXCEPT ![l] = @ + 1]
        /\ IF Unpacks(l)
           THEN Step(w, [r EXCEPT !.pc = "mkdir", !.unit = UnitOf(l)])
           ELSE Step(w, [r EXCEPT !.pc = "raised"])
        /\ UNCHANGED <<Batch, dirs, files, passed, wrote>>

\* batch.py:110-117, fork=False: the for loop calls the next line
SeqCall ==
    /\ phase = "running" /\ ~fork
    /\ proc[Main].pc \in {"idle", "returned"}
    /\ \E l \in todo : Invoke(Main, l)

\* batch.py:109, pool.map: an idle worker takes the next task
PoolTake(w) ==
    /\ phase = "running" /\ fork
    /\ proc[w].pc \in {"idle", "returned", "raised"}
    /\ \E l \in todo : Invoke(w, l)

\* a mkdir that accepts an existing directory (exist_ok=True)
FileExists_never(u, ds) == FALSE

\* a check against the directories listed when the run began, not an atomic mkdir
FileExists_stale(u, ds) == u \in dirsAtStart

\* an existing directory counts only when it holds an artifact, so that a unit
\* whose first attempt wrote nothing is taken up again
FileExists_nonEmpty(u, ds) == u \in ds /\ \E f \in files : f[1] = u

\* out_subdir.mkdir(parents=True, exist_ok=False) raises FileExistsError
FileExists(u, ds) == u \in ds

\* tool.py:78-84
Mkdir(w) ==
    /\ proc[w].pc = "mkdir"
    /\ LET r == proc[w] IN
       \/ /\ FileExists(r.unit, dirs)
          /\ Step(w, [Log(r, "unit", "warning", <<"dir_exists">>) EXCEPT !.pc = "returned"])
          /\ UNCHANGED <<dirs, passed>>
       \/ /\ ~FileExists(r.unit, dirs)
          /\ dirs' = dirs \cup {r.unit}
          /\ passed' = [passed EXCEPT ![r.unit] = @ + 1]
          /\ Step(w, [r EXCEPT !.pc = "query", !.passedCheck = TRUE])
       \/ /\ MayRaise(fork)
          /\ ~FileExists(r.unit, dirs)          \* any other OSError propagates
          /\ Step(w, [r EXCEPT !.pc = "raised"])
          /\ UNCHANGED <<dirs, passed>>
    /\ UNCHANGED <<Batch, todo, calls, files, wrote>>

\* tool.py:86-101: the registry query, outside the try block
Query(w) ==
    /\ proc[w].pc = "query"
    /\ LET r == [proc[w] EXCEPT !.queried = TRUE] IN
       \/ Step(w, [r EXCEPT !.pc = "raised"])
       \/ \E resp \in Responses(fork) :
            Step(w, [Log(r, "unit", "info", <<"aclimatising">>)
                        EXCEPT !.pc = "provision", !.resp = resp,
                               !.images = package_images(resp)])
    /\ UNCHANGED <<Batch, todo, calls, dirs, files, passed, wrote>>

\* tool.py:102-119: one candidate image per step
Provision(w) ==
    /\ proc[w].pc = "provision"
    /\ LET r == proc[w] IN
       IF r.images = <<>>
       THEN Step(w, ToFinally(Log(r, "unit", "error", <<"no_images">>)))
       ELSE LET img == formatted_image(Head(r.images).image_name)
                a   == [r EXCEPT !.attempts = Append(@, img)]
            IN  \/ Step(w, [Log(a, "unit", "info", <<"started">>)
                               EXCEPT !.pc = "wait", !.container = TRUE])
                \/ Step(w, [Log(a, "unit", "warning", <<"pull_failed">>)
                               EXCEPT !.images = Tail(@), !.notFound = @ + 1])
                \/ MayRaise(fork) /\ Step(w, ToExcept(a))
    /\ UNCHANGED <<Batch, todo, calls, dirs, files, passed, wrote>>

\* tool.py:121-128: the whole wait loop
AwaitReady(w) ==
    /\ proc[w].pc = "wait"
    /\ LET r == proc[w] IN
       \E k \in StartingPolls(fork), st \in Statuses :
          LET p  == PollLoop(k, PollInterval, 0)
              r1 == [r EXCEPT !.waited = p.waited]
          IN  IF p.gaveUp
              THEN Step(w, ToFinally(Log(r1, "unit", "error", <<"wait_timeout">>)))
              ELSE Step(w, [r1 EXCEPT !.pc = "gate", !.status = st])
    /\ UNCHANGED <<Batch, todo, calls, dirs, files, passed, wrote>>

\* tool.py:131, "if not container.status != 'running'"
StatusIsBad(st) == ~(st # "running")

\* tool.py:130-139
Gate(w) ==
    /\ proc[w].pc = "gate"
    /\ LET r == proc[w] IN
       IF StatusIsBad(r.status)
       THEN \/ Step(w, ToFinally(Log(r, "unit", "error", <<"not_running">>)))
            \/ MayRaise(fork) /\ Step(w, ToExcept(r))   \* container.logs() raises
       ELSE Step(w, [Log(r, "unit", "info", <<"finding_binaries">>) EXCEPT !.pc = "discover"])
    /\ UNCHANGED <<Batch, todo, calls, dirs, files, passed, wrote>>

\* tool.py:142-149 with util.py:95-125
Discover(w) ==
    /\ proc[w].pc = "discover"
    /\ LET r == [proc[w] EXCEPT !.discovered = TRUE] IN
       \/ MayRaise(fork) /\ Step(w, ToExcept(r))    \* exec_run raises
       \/ \E m \in Manifests(fork) :
            LET g  == get_package_binaries(m)
                r1 == IF Unparsable(m)
                      THEN Log(r, "package", "warning", <<"no_metadata">>) ELSE r
                r2 == Log(r1, "unit", "info", <<"binaries_found">>)
                r3 == IF Len(g.exes) = 0
                      THEN Log(r2, "unit", "error", <<"no_executables">>) ELSE r2
            IN  IF g.raised THEN Step(w, ToExcept(r1))
                ELSE IF Len(g.exes) = 0 THEN Step(w, ToFinally(r3))
                ELSE Step(w, [r3 EXCEPT !.pc = "introspect", !.exes = g.exes, !.i = 1])
    /\ UNCHANGED <<Batch, todo, calls, dirs, files, passed, wrote>>

\* util.py:177-178: the handler of aclimatise_exe builds the traceback string with
\* handle_exception() and drops it
handle_failure(r, exe) == r

\* util.py:162-180: aclimatise_exe after the try block; ok tells whether the
\* block ran to its end.  The last record is logged either way.
aclimatise_exe_end(r, exe, ok) ==
    Log(IF ok THEN r ELSE handle_failure([r EXCEPT !.failures = @ \cup {exe}], exe),
        "util", "info", <<"written", exe>>)

\* a loop that a failing binary leaves, as if aclimatise_exe did not catch
NextExe_stop(r, ok) ==
    IF ~ok THEN ToExcept(r)
    ELSE IF r.i = Len(r.exes) THEN ToFinally(r) ELSE [r EXCEPT !.i = @ + 1]

\* tool.py:150-156: the for loop goes on to the next binary, or to the finally block
NextExe(r, ok) ==
    IF r.i = Len(r.exes) THEN ToFinally(r) ELSE [r EXCEPT !.i = @ + 1]

\* the invocation of process w, as <<run, line>>
Id(w) == <<run, proc[w].line>>

\* tool.py:150-156 with util.py:150-180: aclimatise_exe for the binary exes[i]
Introspect(w) ==
    /\ proc[w].pc = "introspect"
    /\ LET r   == proc[w]
           exe == r.exes[r.i]
           r1  == [Log(r, "util", "info", <<"exploring", exe>>)
                      EXCEPT !.explored = Append(@, exe)]
       IN  \/ /\ files' = files \cup {<<r.unit, exe>>}
              /\ wrote' = [wrote EXCEPT ![r.unit] = @ \cup {Id(w)}]
              /\ Step(w, NextExe(aclimatise_exe_end(r1, exe, TRUE), TRUE))
           \/ /\ UNCHANGED <<files, wrote>>          \* explore_command or save raises
              /\ Step(w, NextExe(aclimatise_exe_end(r1, exe, FALSE), FALSE))
    /\ UNCHANGED <<Batch, todo, calls, dirs, passed>>

\* a release that kills the container and then takes up the loop over the
\* binaries again
Kill_resume(w) ==
    /\ proc[w].pc = "kill"
    /\ LET r == [proc[w] EXCEPT !.kills = @ + 1] IN
       \/ Step(w, [r EXCEPT !.pc = IF r.exes # <<>> THEN "introspect" ELSE "remove",
                            !.i = IF r.exes # <<>> THEN 1 ELSE @])
       \/ Step(w, [r EXCEPT !.pc = "raised", !.killRaised = TRUE])
    /\ UNCHANGED <<Batch, todo, calls, dirs, files, passed, wrote>>

\* tool.py:168
Kill(w) ==
    /\ proc[w].pc = "kill"
    /\ LET r == [proc[w] EXCEPT !.kills = @ + 1] IN
       \/ Step(w, [r EXCEPT !.pc = "remove"])
       \/ Step(w, [r EXCEPT !.pc = "raised", !.killRaised = TRUE])  \* e.g. not running
    /\ UNCHANGED <<Batch, todo, calls, dirs, files, passed, wrote>>

\* tool.py:169
Remove(w) ==
    /\ proc[w].pc = "remove"
    /\ LET r == [proc[w] EXCEPT !.removes = @ + 1] IN
       \/ Step(w, [r EXCEPT !.pc = "rmi", !.containerGone = TRUE])
       \/ MayRaise(fork) /\ Step(w, [r EXCEPT !.pc = "raised"])
    /\ UNCHANGED <<Batch, todo, calls, dirs, files, passed, wrote>>

\* tool.py:170
RemoveImage(w) ==
    /\ proc[w].pc = "rmi"
    /\ LET r == [proc[w] EXCEPT !.rmis = @ + 1] IN
       \/ Step(w, [r EXCEPT !.pc = "returned", !.imageGone = TRUE])
       \/ MayRaise(fork) /\ Step(w, [r EXCEPT !.pc = "raised"])
    /\ UNCHANGED <<Batch, todo, calls, dirs, files, passed, wrote>>

\* batch.py:110-117: an exception of a call leaves the for loop and new_definitions
SeqRaise ==
    /\ phase = "running" /\ ~fork
    /\ proc[Main].pc = "raised"
    /\ phase' = "raised"
    /\ UNCHANGED <<others, run, fork, newPkgs, last_meta, oldPkgs, to_aclimatise, todo, calls, failed,
                   proc, dirs, files, passed, wrote, dirsAtStart, filesAtStart>>

\* batch.py:118 after the loop: listener.stop() and return
SeqReturn ==
    /\ phase = "running" /\ ~fork
    /\ proc[Main].pc \in {"idle", "returned"}
    /\ todo = {}
    /\ phase' = "returned"
    /\ UNCHANGED <<others, run, fork, newPkgs, last_meta, oldPkgs, to_aclimatise, todo, calls, failed,
                   proc, dirs, files, passed, wrote, dirsAtStart, filesAtStart>>

\* batch.py:100-109: pool.map re-raises the exception of a task; leaving the with
\* block terminates the pool, which kills the tasks still running
PoolRaise ==
    /\ phase = "running" /\ fork
    /\ failed
    /\ phase' = "raised"
    /\ proc' = [w \in Procs |-> IF Ended(proc[w]) THEN proc[w]
                                ELSE [proc[w] EXCEPT !.pc = "killed"]]
    /\ UNCHANGED <<others, run, fork, newPkgs, last_meta, oldPkgs, to_aclimatise, todo, calls, failed,
                   dirs, files, passed, wrote, dirsAtStart, filesAtStart>>

\* batch.py:109, 118: every task returned, the map returns, listener.stop()
PoolReturn ==
    /\ phase = "running" /\ fork
    /\ ~failed
    /\ todo = {}
    /\ \A w \in Workers : Ended(proc[w])
    /\ phase' = "returned"
    /\ UNCHANGED <<others, run, fork, newPkgs, last_meta, oldPkgs, to_aclimatise, todo, calls, failed,
                   proc, dirs, files, passed, wrote, dirsAtStart, filesAtStart>>

\* the next new_definitions call, on the same output directory
NextRun ==
    /\ phase \in {"returned", "raised"}
    /\ run < MaxRuns
    /\ run' = run + 1
    /\ to_aclimatise' = ToProcess(newPkgs, last_meta, oldPkgs)
    /\ todo' = to_aclimatise'
    /\ calls' = [l \in Lines |-> 0]
    /\ phase' = "running"
    /\ failed' = FALSE
    /\ proc' = [w \in Procs |-> Idle]
    /\ dirsAtStart' = dirs
    /\ filesAtStart' = files
    /\ UNCHANGED <<others, fork, newPkgs, last_meta, oldPkgs, dirs, files, passed, wrote>>

Running(w) == phase = "running" /\ (IF fork THEN w \in Workers ELSE w = Main)

Next ==
    \/ SeqCall
    \/ SeqRaise
    \/ SeqReturn
    \/ \E w \in Workers : PoolTake(w)
    \/ PoolRaise
    \/ PoolReturn
    \/ NextRun
    \/ \E w \in Procs : Running(w) /\ Mkdir(w)
    \/ \E w \in Procs : Running(w) /\ Query(w)
    \/ \E w \in Procs : Running(w) /\ Provision(w)
    \/ \E w \in Procs : Running(w) /\ AwaitReady(w)
    \/ \E w \in Procs : Running(w) /\ Gate(w)
    \/ \E w \in Procs : Running(w) /\ Discover(w)
    \/ \E w \in Procs : Running(w) /\ Introspect(w)
    \/ \E w \in Procs : Running(w) /\ Kill(w)
    \/ \E w \in Procs : Running(w) /\ Remove(w)
    \/ \E w \in Procs : Running(w) /\ RemoveImage(w)

Spec == Init /\ [][Next]_vars

----------------------------------------------------------------------------
\* new_definitions is not running
BatchOff ==
    /\ run = 1 /\ fork = FALSE /\ newPkgs = {} /\ last_meta = FALSE /\ oldPkgs = {}
    /\ to_aclimatise = {} /\ todo = {}
    /\ calls = [l \in Lines |-> 0]
    /\ phase = "off" /\ failed = FALSE
    /\ proc = [w \in Procs |-> Idle]
    /\ dirs = {} /\ files = {}
    /\ passed = [u \in Units |-> 0]
    /\ wrote = [u \in Units |-> {}]
    /\ dirsAtStart = {} /\ filesAtStart = {}

----------------------------------------------------------------------------
\* DiscoverySpec: get_package_binaries (util.py:95-125) on its own, for every
\* content of the conda-meta directory of the container
MaxFiles   == 2      \* entries of the "files" list of a metadata file
MaxMatched == 2      \* metadata files that match <package>*.json

SeqsUpTo(S, n) == UNION {[1..k -> S] : k \in 0..n}

\* entries of a "files" list, as the parts of the path
FilePaths == { <<"bin", "x">>, <<"bin", "y">>, <<"bin", "sub", "n">>,
               <<"lib", "bin", "w">>, <<"z">> }

\* the metadata files: a document with a "files" list, a document without one,
\* or text that is not JSON
MetaFiles ==
    {[kind |-> "json", paths |-> fs] : fs \in SeqsUpTo(FilePaths, MaxFiles)}
        \cup {[kind |-> "nofiles", paths |-> <<>>], [kind |-> "invalid", paths |-> <<>>]}

RECURSIVE Flatten(_)
Flatten(ms) == IF ms = <<>> THEN <<>> ELSE Head(ms).paths \o Flatten(Tail(ms))

\* util.py:100-105: cat of the matching files; no output when none matches, the
\* contents one after the other when several match
cat(matched) ==
    IF matched = <<>> THEN [kind |-> "none", paths |-> <<>>]
    ELSE IF Len(matched) = 1 THEN matched[1]
    ELSE [kind |-> "concat", paths |-> Flatten(matched)]

\* the contents of conda-meta that are explored: one file of any content, or
\* several files of at most one entry each
ShortMetaFiles == {m \in MetaFiles : Len(m.paths) <= 1}
CondaMetas ==
    SeqsUpTo(MetaFiles, 1) \cup {ms \in SeqsUpTo(ShortMetaFiles, MaxMatched) : Len(ms) >= 2}

DiscoveryInit ==
    /\ BatchOff /\ InstallOff /\ WrapperOff /\ EnvOff /\ SelectOff /\ ReanalyseOff /\ PoolOff /\ LogOff /\ CondaOff /\ ModesOff
    /\ conda_meta \in CondaMetas
    /\ stdout = Unread
    /\ binaries = NotCalled

\* util.py:100-105
ExecRun ==
    /\ stdout = Unread
    /\ stdout' = cat(conda_meta)
    /\ UNCHANGED <<batchVars, installVars, wrapperVars, envVars, selectVars, reanalyseVars, poolVars, logVars, condaVars, modesVars, conda_meta, binaries>>

\* util.py:107-125
ParseAndFilter ==
    /\ stdout # Unread
    /\ ~binaries.done
    /\ LET g == get_package_binaries(stdout)
       IN  binaries' = [done |-> TRUE, raised |-> g.raised, exes |-> g.exes]
    /\ UNCHANGED <<batchVars, installVars, wrapperVars, envVars, selectVars, reanalyseVars, poolVars, logVars, condaVars, modesVars, conda_meta, stdout>>

DiscoveryNext == ExecRun \/ ParseAndFilter

DiscoverySpec == DiscoveryInit /\ [][DiscoveryNext]_vars

----------------------------------------------------------------------------
\* PoolSpec: the pool of batch.py:100-109 on its own, for more units than the
\* batch model holds.  Pool(processes, maxtasksperchild=max_tasks) and
\* pool.map(func, to_aclimatise) without a chunksize: map cuts the units into
\* chunks, a task is one chunk, and a worker leaves after max_tasks tasks.
MaxUnits    == 5     \* size of to_aclimatise
MaxPool     == 2     \* the processes argument
MaxTasksArg == 2     \* the max_tasks argument

\* chunksize, extra = divmod(len(iterable), len(pool) * 4); one more if extra
ChunkFactor == 4
chunksize(n, procs) ==
    (n \div (procs * ChunkFactor)) + (IF n % (procs * ChunkFactor) # 0 THEN 1 ELSE 0)

\* the units first..n cut into chunks of size c
RECURSIVE get_tasks(_, _, _)
get_tasks(first, n, c) ==
    IF first > n THEN <<>>
    ELSE LET last == IF first + c - 1 > n THEN n ELSE first + c - 1
         IN  <<[k \in 1..(last - first + 1) |-> first + k - 1]>> \o get_tasks(last + 1, n, c)

\* a fresh worker process: completed counts its tasks, executed the
\* commands_from_package calls it has made, chunk the rest of its current task
Fresh == [completed |-> 0, executed |-> 0, chunk |-> <<>>, busy |-> FALSE, replaced |-> 0]

PoolInit ==
    /\ BatchOff /\ InstallOff /\ WrapperOff /\ EnvOff /\ SelectOff /\ ReanalyseOff /\ DiscoveryOff /\ LogOff /\ CondaOff /\ ModesOff
    /\ processes \in 1..MaxPool
    /\ max_tasks \in 1..MaxTasksArg
    /\ \E n \in 0..MaxUnits : taskq = get_tasks(1, n, chunksize(n, processes))
    /\ workers = [k \in 1..processes |-> Fresh]

\* a worker that has not used up its tasks takes the next chunk
TakeTask(k) ==
    /\ ~workers[k].busy
    /\ workers[k].completed < max_tasks
    /\ taskq # <<>>
    /\ workers' = [workers EXCEPT ![k].chunk = Head(taskq), ![k].busy = TRUE]
    /\ taskq' = Tail(taskq)
    /\ UNCHANGED <<batchVars, installVars, wrapperVars, envVars, selectVars, reanalyseVars, discoveryVars, logVars, condaVars, modesVars, processes, max_tasks>>

\* the task calls commands_from_package for the next unit of its chunk; a call
\* that raises ends the task
RunUnit(k) ==
    /\ workers[k].busy
    /\ workers[k].chunk # <<>>
    /\ \/ workers' = [workers EXCEPT ![k].executed = @ + 1, ![k].chunk = Tail(@)]
       \/ workers' = [workers EXCEPT ![k].executed = @ + 1, ![k].chunk = <<>>]
    /\ UNCHANGED <<batchVars, installVars, wrapperVars, envVars, selectVars, reanalyseVars, discoveryVars, logVars, condaVars, modesVars, processes, max_tasks, taskq>>

\* the task is over and counted
FinishTask(k) ==
    /\ workers[k].busy
    /\ workers[k].chunk = <<>>
    /\ workers' = [workers EXCEPT ![k].completed = @ + 1, ![k].busy = FALSE]
    /\ UNCHANGED <<batchVars, installVars, wrapperVars, envVars, selectVars, reanalyseVars, discoveryVars, logVars, condaVars, modesVars, processes, max_tasks, taskq>>

\* a worker that has completed max_tasks tasks exits; the pool fills its slot
\* with a fresh process
Replace(k) ==
    /\ ~workers[k].busy
    /\ workers[k].completed >= max_tasks
    /\ workers' = [workers EXCEPT ![k] = [Fresh EXCEPT !.replaced = 1]]
    /\ UNCHANGED <<batchVars, installVars, wrapperVars, envVars, selectVars, reanalyseVars, discoveryVars, logVars, condaVars, modesVars, processes, max_tasks, taskq>>

PoolNext ==
    \/ \E k \in 1..processes : TakeTask(k)
    \/ \E k \in 1..processes : RunUnit(k)
    \/ \E k \in 1..processes : FinishTask(k)
    \/ \E k \in 1..processes : Replace(k)

PoolSpec == PoolInit /\ [][PoolNext]_vars

----------------------------------------------------------------------------
\* LogSpec: the path of the log records on its own.  The coordinator
\* (batch.py:75-78) starts a QueueListener on the handlers of the root logger; a
\* task (tool.py:71-74) gives the logger named after its unit one QueueHandler.
\* get_package_binaries logs through getLogger(package) (util.py:99) and
\* aclimatise_exe through the logger of the module (util.py:27); neither has a
\* handler.  A record goes to the handlers of its logger and then, as no logger
\* here sets propagate to False, to the handlers of the root logger of the
\* process that emits it.
MaxRecords == 2      \* records a task emits through the logger of its unit

\* the loggers of the records of one task, in the order of emission
Script == [k \in 1..MaxRecords |-> "unit"] \o <<"package", "util">>

\* a line whose name, "a=1.2", has the name of another line, "a=1", before a dot
LineA12 == <<"a", "=", "1", ".", "2">>

LogLines == Lines \cup {LineA12}

\* logging.Manager.getLogger and _fixupParents: the names that end before a dot
\* of the name are the names of the loggers above it
Ancestors(name) == {SubSeq(name, 1, k - 1) : k \in {j \in 1..Len(name) : name[j] = "."}}

\* the lines of the call: two tasks run side by side in the pool, three in a row
\* in the sequential mode
LogTaskSets(f) ==
    IF f THEN {{LineA, LineA2}, {LineA, LineB}, {LineA, LineA12}}
    ELSE {{LineA, LineA2}, {LineA, LineB}, {LineA, LineA2, LineB}, {LineA, LineA12}}

LogProcs == IF log_fork THEN Workers ELSE {Main}

Records == (LogLines \X (1..Len(Script)))

Sentinel == <<<<>>, 0>>

NoTask == [line |-> <<>>, pos |-> 0]

\* tool.py:73-74: logger.handlers = []; logger.addHandler(QueueHandler(queue))
SetupHandlers(n) == 1

\* the handlers of the loggers ns of the process, counted together
RECURSIVE HandlerCount(_, _)
HandlerCount(reg, ns) ==
    IF ns = {} THEN 0
    ELSE LET n == CHOOSE x \in ns : TRUE IN reg[n] + HandlerCount(reg, ns \ {n})

\* the queue handlers that get a record of the logger lg emitted by process p:
\* those of the logger of the unit and, the record propagating upwards
\* (Logger.callHandlers), those of the loggers above it that an earlier task of
\* the process has set up
QueueHandlersOf(p, lg, name) ==
    IF lg = "unit"
    THEN registry[p][name]
         + HandlerCount(registry[p], Ancestors(name) \cap DOMAIN registry[p])
    ELSE 0

\* s followed by n copies of x
RECURSIVE Put(_, _, _)
Put(s, x, n) == IF n = 0 THEN s ELSE Put(Append(s, x), x, n - 1)

LogInit ==
    /\ BatchOff /\ InstallOff /\ WrapperOff /\ EnvOff /\ SelectOff /\ ReanalyseOff /\ DiscoveryOff /\ PoolOff /\ CondaOff /\ ModesOff
    /\ log_fork \in BOOLEAN
    /\ log_tasks \in LogTaskSets(log_fork)
    /\ tasks_left = log_tasks
    /\ emitted = {}
    /\ running = [p \in Procs |-> NoTask]
    /\ registry = [p \in Procs |-> [n \in {strip(l) : l \in LogLines} |-> 0]]
    /\ log_queue = <<>>
    /\ received = [r \in Records |-> 0]
    /\ direct = [r \in Records |-> 0]
    /\ listener = "running"

\* tool.py:71-74: a process begins a task and sets up the logger of the unit
StartTask(p) ==
    /\ running[p] = NoTask
    /\ \E l \in tasks_left :
         /\ tasks_left' = tasks_left \ {l}
         /\ running' = [running EXCEPT ![p] = [line |-> l, pos |-> 1]]
         /\ registry' = [registry EXCEPT ![p][strip(l)] = SetupHandlers(@)]
    /\ UNCHANGED <<batchVars, installVars, wrapperVars, envVars, selectVars, reanalyseVars, discoveryVars, poolVars, condaVars, modesVars, log_fork, log_tasks, emitted, log_queue,
                   received, direct, listener>>

\* a logger call of the task: each queue handler of the logger puts the record,
\* then the record propagates to the handlers of the root logger of the process
Emit(p) ==
    /\ running[p] # NoTask
    /\ running[p].pos <= Len(Script)
    /\ LET t   == running[p]
           rec == <<t.line, t.pos>>
       IN  /\ log_queue' = Put(log_queue, rec, QueueHandlersOf(p, Script[t.pos], strip(t.line)))
           /\ direct' = [direct EXCEPT ![rec] = @ + 1]
           /\ emitted' = emitted \cup {rec}
           /\ running' = [running EXCEPT ![p].pos = @ + 1]
    /\ UNCHANGED <<batchVars, installVars, wrapperVars, envVars, selectVars, reanalyseVars, discoveryVars, poolVars, condaVars, modesVars, log_fork, log_tasks, tasks_left, registry,
                   received, listener>>

\* the task returns
EndTask(p) ==
    /\ running[p] # NoTask
    /\ running[p].pos > Len(Script)
    /\ running' = [running EXCEPT ![p] = NoTask]
    /\ UNCHANGED <<batchVars, installVars, wrapperVars, envVars, selectVars, reanalyseVars, discoveryVars, poolVars, condaVars, modesVars, log_fork, log_tasks, tasks_left, emitted,
                   registry, log_queue, received, direct, listener>>

\* the thread of the listener takes a record and passes it to the handlers; the
\* sentinel ends the thread
Dispatch ==
    /\ listener \in {"running", "stopping"}
    /\ log_queue # <<>>
    /\ log_queue' = Tail(log_queue)
    /\ IF Head(log_queue) = Sentinel
       THEN listener' = "stopped" /\ UNCHANGED received
       ELSE received' = [received EXCEPT ![Head(log_queue)] = @ + 1] /\ UNCHANGED listener
    /\ UNCHANGED <<batchVars, installVars, wrapperVars, envVars, selectVars, reanalyseVars, discoveryVars, poolVars, condaVars, modesVars, log_fork, log_tasks, tasks_left, emitted,
                   running, registry, direct>>

\* batch.py:118: every task has returned; listener.stop() puts the sentinel
StopListener ==
    /\ listener = "running"
    /\ tasks_left = {}
    /\ \A p \in Procs : running[p] = NoTask
    /\ log_queue' = Append(log_queue, Sentinel)
    /\ listener' = "stopping"
    /\ UNCHANGED <<batchVars, installVars, wrapperVars, envVars, selectVars, reanalyseVars, discoveryVars, poolVars, condaVars, modesVars, log_fork, log_tasks, tasks_left, emitted,
                   running, registry, received, direct>>

LogNext ==
    \/ \E p \in LogProcs : StartTask(p)
    \/ \E p \in LogProcs : Emit(p)
    \/ \E p \in LogProcs : EndTask(p)
    \/ Dispatch
    \/ StopListener

LogSpec == LogInit /\ [][LogNext]_vars

----------------------------------------------------------------------------
\* CondaSpec: the conda variant, bioconda_cli/main.py.  install (359-370) maps
\* commands_from_package (240-330) over the lines of the package file; the
\* workers are forked from the process that created the module-level lock
\* (main.py:26), so they share it.
MaxCondaUnits == 2     \* lines of the package file
MaxExes       == 2     \* binaries of a package

\* acquiring without looking at the lock
MaxTmpNames == 3    \* names that mkdtemp can give

NoPrefix == 0

TmpNames == 1..MaxTmpNames

\* a mkdtemp that does not look at the directories that exist
mkdtemp_any(existing) == TmpNames

\* tempfile.mkdtemp, under TemporaryDirectory(): a random name, tried again
\* until the mkdir of a directory of that name succeeds
mkdtemp(existing) == TmpNames \ existing

LockFree_ignored(l) == TRUE

\* main.py:292: "with lock" blocks until the lock is free
LockFree(l) == l = 0

CondaInit ==
    /\ BatchOff /\ InstallOff /\ WrapperOff /\ EnvOff /\ SelectOff /\ ReanalyseOff /\ DiscoveryOff /\ PoolOff /\ LogOff /\ ModesOff
    /\ conda_todo \in 1..MaxCondaUnits
    /\ conda_stage = [w \in Workers |-> "idle"]
    /\ conda_exes = [w \in Workers |-> 0]
    /\ lock = 0
    /\ prefix = [w \in Workers |-> NoPrefix]
    /\ tmp = {}

\* main.py:256: the end of "with tempfile.TemporaryDirectory() as dir", reached
\* by a return and by an exception alike, removes the directory
cleanup(existing, d) == existing \ {d}

\* a step of the call of worker w; a step that leaves the call leaves the with
\* block of main.py:256
CondaStep(w, from, to) ==
    /\ conda_stage[w] = from
    /\ conda_stage' = [conda_stage EXCEPT ![w] = to]
    /\ IF to \in {"returned", "raised"}
       THEN /\ tmp' = cleanup(tmp, prefix[w])
            /\ prefix' = [prefix EXCEPT ![w] = NoPrefix]
       ELSE UNCHANGED <<prefix, tmp>>

\* main.py:370, 246-256: the worker takes a line, splits it, makes the output
\* directory and enters "with tempfile.TemporaryDirectory() as dir"
CondaTake(w) ==
    /\ conda_todo > 0
    /\ conda_stage[w] \in {"idle", "returned", "raised"}
    /\ conda_todo' = conda_todo - 1
    /\ conda_stage' = [conda_stage EXCEPT ![w] = "create"]
    /\ \E d \in mkdtemp(tmp) :
          /\ prefix' = [prefix EXCEPT ![w] = d]
          /\ tmp' = tmp \cup {d}
    /\ UNCHANGED <<batchVars, installVars, wrapperVars, envVars, selectVars, reanalyseVars, discoveryVars, poolVars, logVars, modesVars, conda_exes, lock>>

\* main.py:259-261: conda create of the empty environment
CondaCreate(w) ==
    /\ \/ CondaStep(w, "create", "solve")
       \/ CondaStep(w, "create", "raised")
    /\ UNCHANGED <<batchVars, installVars, wrapperVars, envVars, selectVars, reanalyseVars, discoveryVars, poolVars, logVars, modesVars, conda_todo, conda_exes, lock>>

\* main.py:263-289: solve_for_transaction; a failure is printed and the call
\* returns, or is raised again with exit_on_failure
CondaSolve(w) ==
    /\ \/ CondaStep(w, "solve", "solved")
       \/ CondaStep(w, "solve", "returned")
       \/ CondaStep(w, "solve", "raised")
    /\ UNCHANGED <<batchVars, installVars, wrapperVars, envVars, selectVars, reanalyseVars, discoveryVars, poolVars, logVars, modesVars, conda_todo, conda_exes, lock>>

\* main.py:292: entering "with lock"
CondaAcquire(w) ==
    /\ LockFree(lock)
    /\ CondaStep(w, "solved", "download")
    /\ lock' = w
    /\ UNCHANGED <<batchVars, installVars, wrapperVars, envVars, selectVars, reanalyseVars, discoveryVars, poolVars, logVars, modesVars, conda_todo, conda_exes>>

\* a critical section that an exception leaves with the lock still held, as
\* lock.acquire() without a finally would
CondaDownload_keepsLock(w) ==
    /\ \/ CondaStep(w, "download", "execute")
       \/ CondaStep(w, "download", "raised")
    /\ UNCHANGED <<batchVars, installVars, wrapperVars, envVars, selectVars, reanalyseVars, discoveryVars, poolVars, logVars, modesVars, conda_todo, conda_exes, lock>>

\* main.py:293: transaction.download_and_extract(); an exception leaves the
\* with block, which releases the lock
CondaDownload(w) ==
    /\ \/ CondaStep(w, "download", "execute") /\ UNCHANGED lock
       \/ CondaStep(w, "download", "raised") /\ lock' = 0
    /\ UNCHANGED <<batchVars, installVars, wrapperVars, envVars, selectVars, reanalyseVars, discoveryVars, poolVars, logVars, modesVars, conda_todo, conda_exes>>

\* main.py:294: transaction.execute(), then the end of the with block
CondaExecute(w) ==
    /\ \/ CondaStep(w, "execute", "discover")
       \/ CondaStep(w, "execute", "raised")
    /\ lock' = 0
    /\ UNCHANGED <<batchVars, installVars, wrapperVars, envVars, selectVars, reanalyseVars, discoveryVars, poolVars, logVars, modesVars, conda_todo, conda_exes>>

\* main.py:297-299: get_package_binaries of the conda variant
CondaDiscover(w) ==
    /\ \/ \E n \in 0..MaxExes :
            /\ CondaStep(w, "discover", IF n = 0 THEN "returned" ELSE "explore")
            /\ conda_exes' = [conda_exes EXCEPT ![w] = n]
       \/ CondaStep(w, "discover", "raised") /\ UNCHANGED conda_exes
    /\ UNCHANGED <<batchVars, installVars, wrapperVars, envVars, selectVars, reanalyseVars, discoveryVars, poolVars, logVars, modesVars, conda_todo, lock>>

\* main.py:300-329: explore_command and the dump for the next binary; a failure
\* is printed, or raised again with exit_on_failure
CondaExplore(w) ==
    /\ \/ /\ CondaStep(w, "explore", IF conda_exes[w] = 1 THEN "returned" ELSE "explore")
          /\ conda_exes' = [conda_exes EXCEPT ![w] = @ - 1]
       \/ CondaStep(w, "explore", "raised") /\ conda_exes' = [conda_exes EXCEPT ![w] = 0]
    /\ UNCHANGED <<batchVars, installVars, wrapperVars, envVars, selectVars, reanalyseVars, discoveryVars, poolVars, logVars, modesVars, conda_todo, lock>>

CondaNext ==
    \/ \E w \in Workers : CondaTake(w)
    \/ \E w \in Workers : CondaCreate(w)
    \/ \E w \in Workers : CondaSolve(w)
    \/ \E w \in Workers : CondaAcquire(w)
    \/ \E w \in Workers : CondaDownload(w)
    \/ \E w \in Workers : CondaExecute(w)
    \/ \E w \in Workers : CondaDiscover(w)
    \/ \E w \in Workers : CondaExplore(w)

CondaSpec == CondaInit /\ [][CondaNext]_vars

\* the same with the calls inside the critical section returning or raising in
\* the end, and the lock, when it stays free with workers waiting for it, being
\* taken by one of them
CondaFairness ==
    /\ WF_vars(\E w \in Workers : CondaAcquire(w))
    /\ WF_vars(\E w \in Workers : CondaDownload(w))
    /\ WF_vars(\E w \in Workers : CondaExecute(w))

CondaLiveSpec == CondaSpec /\ CondaFairness

----------------------------------------------------------------------------
\* ModesSpec: new_definitions with fork=False and with fork=True, side by side on
\* the same lines, the same initial directory and the same behaviour of the
\* external services.  A call of commands_from_package is one step here: its
\* effect on the directory and whether it raises, as tool.py:62-170 gives them
\* for the behaviour of the services for the unit.
Behaviours == {"ok", "exe_fails", "no_image", "query_raises"}

\* the binaries of every package, and the one whose introspection fails
ExesOf == {"x", "y"}
BadExe == "y"

\* commands_from_package(line) on the directory (d, f) when the services behave as sv
Call(line, d, f, sv) ==
    IF ~Unpacks(line) THEN [raised |-> TRUE, dirs |-> d, files |-> f]       \* tool.py:76
    ELSE LET u == UnitOf(line) IN
         IF FileExists(u, d) THEN [raised |-> FALSE, dirs |-> d, files |-> f]   \* 79-84
         ELSE IF sv[u] = "query_raises"                                         \* 86
              THEN [raised |-> TRUE, dirs |-> d \cup {u}, files |-> f]
         ELSE IF sv[u] = "no_image"                                             \* 115-119
              THEN [raised |-> FALSE, dirs |-> d \cup {u}, files |-> f]
         ELSE [raised |-> FALSE, dirs |-> d \cup {u},                           \* 141-156
               files |-> f \cup {<<u, e>> : e \in (IF sv[u] = "ok" THEN ExesOf
                                                                    ELSE ExesOf \ {BadExe})}]

ModeStart(ls, d) == [todo |-> ls, dirs |-> d, files |-> {}, failed |-> FALSE, st |-> "running"]

ModesInit ==
    /\ BatchOff /\ InstallOff /\ WrapperOff /\ EnvOff /\ SelectOff /\ ReanalyseOff /\ DiscoveryOff /\ PoolOff /\ LogOff /\ CondaOff
    /\ services \in [Units -> Behaviours]
    /\ \E ls \in NewMetas, d \in {{}, {UnitOf(LineA)}} :
         /\ seq_mode = ModeStart(ls, d)
         /\ pool_mode = ModeStart(ls, d)

\* batch.py:110-117: the for loop calls the next line; an exception leaves
\* new_definitions
SeqModeCall ==
    /\ seq_mode.st = "running"
    /\ \E l \in seq_mode.todo :
         LET c == Call(l, seq_mode.dirs, seq_mode.files, services)
         IN  seq_mode' = [seq_mode EXCEPT !.todo = @ \ {l}, !.dirs = c.dirs, !.files = c.files,
                                         !.failed = c.raised,
                                         !.st = IF c.raised THEN "raised" ELSE "running"]
    /\ UNCHANGED <<batchVars, installVars, wrapperVars, envVars, selectVars, reanalyseVars, discoveryVars, poolVars, logVars, condaVars, services, pool_mode>>

\* batch.py:118
SeqModeReturn ==
    /\ seq_mode.st = "running"
    /\ seq_mode.todo = {}
    /\ seq_mode' = [seq_mode EXCEPT !.st = "returned"]
    /\ UNCHANGED <<batchVars, installVars, wrapperVars, envVars, selectVars, reanalyseVars, discoveryVars, poolVars, logVars, condaVars, services, pool_mode>>

\* batch.py:100-109: a worker runs the task of the next line; an exception is
\* kept for the caller of map
PoolModeCall ==
    /\ pool_mode.st = "running"
    /\ \E l \in pool_mode.todo :
         LET c == Call(l, pool_mode.dirs, pool_mode.files, services)
         IN  pool_mode' = [pool_mode EXCEPT !.todo = @ \ {l}, !.dirs = c.dirs,
                                           !.files = c.files,
                                           !.failed = @ \/ c.raised]
    /\ UNCHANGED <<batchVars, installVars, wrapperVars, envVars, selectVars, reanalyseVars, discoveryVars, poolVars, logVars, condaVars, services, seq_mode>>

\* batch.py:109: map raises the exception of a task, at once or after the other
\* tasks, as the version of the library has it; the pool is terminated
PoolModeRaise ==
    /\ pool_mode.st = "running"
    /\ pool_mode.failed
    /\ pool_mode' = [pool_mode EXCEPT !.st = "raised"]
    /\ UNCHANGED <<batchVars, installVars, wrapperVars, envVars, selectVars, reanalyseVars, discoveryVars, poolVars, logVars, condaVars, services, seq_mode>>

\* batch.py:109, 118
PoolModeReturn ==
    /\ pool_mode.st = "running"
    /\ ~pool_mode.failed
    /\ pool_mode.todo = {}
    /\ pool_mode' = [pool_mode EXCEPT !.st = "returned"]
    /\ UNCHANGED <<batchVars, installVars, wrapperVars, envVars, selectVars, reanalyseVars, discoveryVars, poolVars, logVars, condaVars, services, seq_mode>>

ModesNext ==
    \/ SeqModeCall
    \/ SeqModeReturn
    \/ PoolModeCall
    \/ PoolModeRaise
    \/ PoolModeReturn

ModesSpec == ModesInit /\ [][ModesNext]_vars

----------------------------------------------------------------------------
\* ReanalyseSpec: reanalyse (batch.py:121-181) with its reanalyse_tool calls
\* (tool.py:22-58) on a directory of stored files.
MaxStored == 3      \* files under the directory

\* the coordinator, as the source of a log record
Coordinator == 0

\* no metadata file given (None)
NoMeta == <<>>

\* aclimatise_version strings, as their release numbers: "1.2", "1.2.0", "1.10"
Versions == {<<1, 2>>, <<1, 2, 0>>, <<1, 10>>}

\* a version read as it is written, with its trailing zeros
parse_raw(v) == v

\* packaging.version.parse as batch.py:156 uses it: the key of a release drops
\* its trailing zeros
RECURSIVE parse(_)
parse(v) == IF v # <<>> /\ v[Len(v)] = 0 THEN parse(SubSeq(v, 1, Len(v) - 1)) ELSE v

\* the > of two keys: the comparison of two tuples
RECURSIVE KeyGreater(_, _)
KeyGreater(a, b) ==
    IF a = <<>> THEN FALSE
    ELSE IF b = <<>> THEN TRUE
    ELSE IF Head(a) # Head(b) THEN Head(a) > Head(b)
    ELSE KeyGreater(Tail(a), Tail(b))

\* batch.py:147-156: the gate is shut when both files are given and the new
\* version is not greater than the old one
GateShut(new, old) ==
    new # NoMeta /\ old # NoMeta /\ ~KeyGreater(parse(new), parse(old))

\* what a stored file may hold: a description with a help text and no
\* sub-commands, one without help text, one with an empty help text, one with
\* sub-commands, a file that yaml cannot load, and a file that is no .yml
Description(h, n) ==
    [suffix |-> "yml", loads |-> TRUE, help_text |-> h, subcommands |-> n, parser |-> "old"]

StoredKinds ==
    << Description("usage", 0), Description("None", 0), Description("", 0),
       Description("usage", 1),
       [Description("None", 0) EXCEPT !.loads = FALSE],
       [Description("usage", 0) EXCEPT !.suffix = "cwl"] >>

\* the directories: up to MaxStored files, in non-decreasing order of kind
Directories ==
    {d \in UNION {[1..n -> 1..Len(StoredKinds)] : n \in 1..MaxStored} :
        \A k \in 1..(Len(d) - 1) : d[k] <= d[k + 1]}

\* dir.rglob("*.yml"), batch.py:163
rglob(d) == {f \in DOMAIN d : d[f].suffix = "yml"}

\* a reanalyse_tool that looks at the help text only
Skips_helpOnly(c) == c.help_text = "None" \/ c.help_text = ""

\* tool.py:38-46: the two conditions under which reanalyse_tool returns early
Skips(c) == c.help_text = "None" \/ c.help_text = "" \/ c.subcommands > 0

\* tool.py:39, 43-45: the warning of the condition that is met first
SkipMessage(c) ==
    IF c.help_text = "None" \/ c.help_text = "" THEN <<"no_help_text">>
    ELSE <<"has_subcommands">>

\* tool.py:48-50: what parse_help and save_to_file leave in the file
Reparsed(c) == [c EXCEPT !.subcommands = 0, !.parser = "new"]

ReLog(f, level, msg) == re_logs \cup {<<f, level, msg>>}

ReanalyseInit ==
    /\ BatchOff /\ InstallOff /\ WrapperOff /\ EnvOff /\ SelectOff /\ DiscoveryOff /\ PoolOff /\ LogOff /\ CondaOff /\ ModesOff
    /\ re_fork \in BOOLEAN
    /\ wrapper_root \in BOOLEAN
    /\ new_meta \in Versions \cup {NoMeta}
    /\ old_meta \in Versions \cup {NoMeta}
    /\ \E d \in Directories : stored = [f \in DOMAIN d |-> StoredKinds[d[f]]]
    /\ wrapper_dir = {} /\ to_reanalyse = {} /\ re_left = {}
    /\ opened = {} /\ rewritten = {} /\ re_logs = {} /\ re_raised = {}
    /\ stored_at_start = stored
    /\ re_listener = "off"
    /\ re_phase = "start"

\* batch.py:141-163: the listener starts, the version gate, the listing
ReanalyseStart ==
    /\ re_phase = "start"
    /\ re_listener' = "running"
    /\ IF GateShut(new_meta, old_meta)
       THEN /\ re_logs' = ReLog(Coordinator, "warning", <<"skipping">>)
            /\ re_phase' = "skipped"
            /\ UNCHANGED <<to_reanalyse, re_left>>
       ELSE /\ to_reanalyse' = rglob(stored)
            /\ re_left' = rglob(stored)
            /\ re_phase' = "running"
            /\ UNCHANGED re_logs
    /\ UNCHANGED <<batchVars, installVars, wrapperVars, envVars, selectVars, discoveryVars, poolVars, logVars, condaVars, modesVars,
                   re_fork, wrapper_root, new_meta, old_meta, stored, wrapper_dir,
                   opened, rewritten, re_raised, stored_at_start>>

\* a call of reanalyse_tool raises: in the for loop of batch.py:174-180 the
\* exception leaves reanalyse, in the pool it is kept for the map to re-raise
ReRaise(f) ==
    /\ re_raised' = re_raised \cup {f}
    /\ re_phase' = IF re_fork THEN re_phase ELSE "raised"

\* tool.py:22-58: one call of reanalyse_tool, for the file f
ReanalyseTool(f) ==
    /\ re_phase = "running"
    /\ f \in re_left
    /\ re_left' = re_left \ {f}
    /\ opened' = opened \cup {f}
    /\ LET c     == stored[f]
           begun == ReLog(f, "info", <<"reanalysing">>)
       IN  IF ~c.loads
           THEN \* yaml.load raises
                /\ re_logs' = begun
                /\ ReRaise(f)
                /\ UNCHANGED <<stored, rewritten, wrapper_dir>>
           ELSE IF Skips(c)
           THEN /\ re_logs' = begun \cup {<<f, "warning", SkipMessage(c)>>}
                /\ UNCHANGED <<stored, rewritten, wrapper_dir, re_raised, re_phase>>
           ELSE /\ re_logs' = begun
                /\ \/ \* parse_help raises, or save_to_file raises before it writes
                      /\ ReRaise(f)
                      /\ UNCHANGED <<stored, rewritten, wrapper_dir>>
                   \/ \* save_to_file raises after it has truncated the file
                      /\ stored' = [stored EXCEPT ![f].loads = FALSE]
                      /\ ReRaise(f)
                      /\ UNCHANGED <<rewritten, wrapper_dir>>
                   \/ \* the file is saved, and the wrappers when a root is given
                      /\ stored' = [stored EXCEPT ![f] = Reparsed(c)]
                      /\ rewritten' = rewritten \cup {f}
                      /\ wrapper_dir' = IF wrapper_root THEN wrapper_dir \cup {f}
                                        ELSE wrapper_dir
                      /\ UNCHANGED <<re_raised, re_phase>>
    /\ UNCHANGED <<batchVars, installVars, wrapperVars, envVars, selectVars, discoveryVars, poolVars, logVars, condaVars, modesVars,
                   re_fork, wrapper_root, new_meta, old_meta, to_reanalyse,
                   stored_at_start, re_listener>>

\* batch.py:166-173: the map re-raises the exception of a task and the with
\* block terminates the pool; the tasks not yet run are lost
RePoolRaise ==
    /\ re_phase = "running" /\ re_fork /\ re_raised # {}
    /\ re_phase' = "raised"
    /\ UNCHANGED <<batchVars, installVars, wrapperVars, envVars, selectVars, discoveryVars, poolVars, logVars, condaVars, modesVars,
                   re_fork, wrapper_root, new_meta, old_meta, stored, wrapper_dir,
                   to_reanalyse, re_left, opened, rewritten, re_logs, re_raised,
                   stored_at_start, re_listener>>

\* batch.py:181: every file was handed over and none raised; listener.stop()
ReanalyseReturn ==
    /\ re_phase = "running" /\ re_raised = {} /\ re_left = {}
    /\ re_phase' = "returned"
    /\ re_listener' = "stopped"
    /\ UNCHANGED <<batchVars, installVars, wrapperVars, envVars, selectVars, discoveryVars, poolVars, logVars, condaVars, modesVars,
                   re_fork, wrapper_root, new_meta, old_meta, stored, wrapper_dir,
                   to_reanalyse, re_left, opened, rewritten, re_logs, re_raised,
                   stored_at_start>>

ReanalyseNext ==
    \/ ReanalyseStart
    \/ \E f \in DOMAIN stored : ReanalyseTool(f)
    \/ RePoolRaise
    \/ ReanalyseReturn

ReanalyseSpec == ReanalyseInit /\ [][ReanalyseNext]_vars

----------------------------------------------------------------------------
\* SelectSpec: latest_biocontainers (util.py:38-78) on the output of
\* run_command('search', '--channel', 'bioconda', '--json').
MaxPackages == 2    \* packages in the output of the search

\* package names, as the prefix that the R filter looks for and the rest
Names == {<<"bwa">>, <<"rsem">>, <<"r-", "base">>, <<"bioconductor-", "limma">>}

\* str.startswith
startswith(n, pre) == n # <<>> /\ Head(n) = pre

\* util.py:44-48: the R filter drops the package
IsR(n) == startswith(n, "r-") \/ startswith(n, "bioconductor-")

ToolClasses == {"CommandLineTool", "Workflow"}

\* the versions listed for a package, in the order of the listing
VersionLists ==
    { << <<1, 2>> >>, << <<1, 2>>, <<1, 10>> >>, << <<1, 10>>, <<1, 2>> >>,
      << <<1, 2>>, <<1, 2, 0>> >> }

\* the details of a package.  "list" is what conda search --json prints for a
\* package: the list of its records.  "dict" is what the loop reads: an object
\* with the keys toolclass and versions.
Details ==
    [shape : {"dict"}, toolclass : ToolClasses, versions : VersionLists]
    \cup [shape : {"list"}, toolclass : {"absent"}, versions : VersionLists]

\* the outputs of the search: up to MaxPackages packages, all of one shape
SearchResults ==
    UNION {{js \in [S -> Details] : \A p, q \in S : js[p].shape = js[q].shape} :
            S \in {T \in SUBSET Names : Cardinality(T) \in 1..MaxPackages}}

\* util.py:55-57: max(versions, key=parse), the first of the greatest versions
RECURSIVE latest_version(_, _)
latest_version(vs, best) ==
    IF vs = <<>> THEN best
    ELSE latest_version(Tail(vs),
                        IF KeyGreater(parse(Head(vs)), parse(best)) THEN Head(vs) ELSE best)

Pending == [state |-> "pending", list |-> {}]

\* util.py:38-78.  details["toolclass"] and details["versions"] raise TypeError
\* when details is a list; the entries are "name=version" strings, as pairs
latest_biocontainers(js, fr, ft) ==
    LET kept == {p \in DOMAIN js : ~(fr /\ IsR(p))}
    IN  IF \E p \in kept : js[p].shape = "list"
        THEN [state |-> "raised", list |-> {}]
        ELSE [state |-> "returned",
              list  |-> {<<p, latest_version(Tail(js[p].versions), Head(js[p].versions))>> :
                            p \in {q \in kept : ft = {} \/ js[q].toolclass \in ft}}]

SelectInit ==
    /\ BatchOff /\ InstallOff /\ WrapperOff /\ EnvOff /\ DiscoveryOff /\ PoolOff /\ LogOff /\ CondaOff /\ ModesOff
    /\ ReanalyseOff
    /\ search_json \in SearchResults
    /\ filter_r \in BOOLEAN
    /\ filter_type \in {{}, {"CommandLineTool"}, {"Workflow"}}
    /\ images = Pending

LatestBiocontainers ==
    /\ images = Pending
    /\ images' = latest_biocontainers(search_json, filter_r, filter_type)
    /\ UNCHANGED <<batchVars, installVars, wrapperVars, envVars, discoveryVars, poolVars, logVars, condaVars, modesVars,
                   reanalyseVars, search_json, filter_r, filter_type>>

SelectNext == LatestBiocontainers

SelectSpec == SelectInit /\ [][SelectNext]_vars

----------------------------------------------------------------------------
\* EnvSpec: activate_env (bioconda_cli/main.py:184-198, util.py:97-111) around
\* the units that one worker process handles one after the other.
MaxEnvUnits == 4    \* units handled by the worker

Keys == {"CONDA_PREFIX", "CONDA_SHLVL", "PATH", "CONDA_PREFIX_1", "HOME"}

\* a variable that is not in os.environ; the value of a variable is a sequence
\* of entries, PATH having several
Unset == <<>>

Base == <<"base", 0>>

\* the temporary prefix of the k-th unit
Prefix(k) == <<"tmp", k>>

\* the environments in which the worker starts
InitialEnvs ==
    {[k \in Keys |->
        CASE k = "CONDA_PREFIX"   -> cp
          [] k = "CONDA_SHLVL"    -> lvl
          [] k = "PATH"           -> << Base, <<"usr", 0>> >>
          [] k = "CONDA_PREFIX_1" -> cp1
          [] OTHER                -> << <<"home", 0>> >>] :
        cp  \in {Unset, <<Base>>, << <<"envs", 0>> >>},
        lvl \in {Unset, << <<"1", 0>> >>},
        cp1 \in {Unset, << <<"miniconda", 0>> >>}}

\* main.py:189-191: the three assignments before the backup is read
SetPrefix(env, k) ==
    [env EXCEPT !["CONDA_PREFIX"] = <<Prefix(k)>>,
                !["CONDA_SHLVL"]  = << <<"2", 0>> >>,
                !["PATH"]         = <<Prefix(k)>> \o @]

\* main.py:198: os.environ.update(env_backup) assigns the variables that the
\* backup has and leaves the others as they are
update(env, backup) ==
    [k \in Keys |-> IF backup[k] # Unset THEN backup[k] ELSE env[k]]

EnvInit ==
    /\ BatchOff /\ InstallOff /\ WrapperOff /\ DiscoveryOff /\ PoolOff /\ LogOff /\ CondaOff /\ ModesOff
    /\ ReanalyseOff /\ SelectOff
    /\ environ \in InitialEnvs
    /\ env_backup = environ
    /\ env_before = environ
    /\ env_unit = 0
    /\ env_stage = "idle"

\* main.py:186-195: the entry of activate_env for the next unit of the worker.
\* env_backup["CONDA_PREFIX"] raises KeyError when the variable was not set.
ActivateEnter ==
    /\ env_stage \in {"idle", "after", "entry_raised"}
    /\ env_unit < MaxEnvUnits
    /\ env_unit' = env_unit + 1
    /\ env_before' = environ
    /\ env_backup' = environ
    /\ IF environ["CONDA_PREFIX"] = Unset
       THEN /\ environ' = SetPrefix(environ, env_unit + 1)
            /\ env_stage' = "entry_raised"
       ELSE /\ environ' = [SetPrefix(environ, env_unit + 1)
                              EXCEPT !["CONDA_PREFIX_1"] = environ["CONDA_PREFIX"]]
            /\ env_stage' = "inside"
    /\ UNCHANGED <<batchVars, installVars, wrapperVars, discoveryVars, poolVars, logVars, condaVars, modesVars,
                   reanalyseVars, selectVars>>

\* main.py:195-198: the block ends, or returns (main.py:289), and the generator
\* goes on after the yield
BlockEnds ==
    /\ env_stage = "inside"
    /\ environ' = update(environ, env_backup)
    /\ env_stage' = "after"
    /\ UNCHANGED <<batchVars, installVars, wrapperVars, discoveryVars, poolVars, logVars, condaVars, modesVars,
                   reanalyseVars, selectVars, env_backup, env_before, env_unit>>

\* main.py:195: an exception of the block is thrown into the generator at the
\* yield, which has no try statement: main.py:198 is not run
BlockRaises ==
    /\ env_stage = "inside"
    /\ env_stage' = "after"
    /\ UNCHANGED <<batchVars, installVars, wrapperVars, discoveryVars, poolVars, logVars, condaVars, modesVars,
                   reanalyseVars, selectVars, environ, env_backup, env_before, env_unit>>

EnvNext == ActivateEnter \/ BlockEnds \/ BlockRaises

EnvSpec == EnvInit /\ [][EnvNext]_vars

-----------------------------------------------------------------------------
\* WrapperSpec: wrapper_from_command (util.py:207-251) under each function
\* that calls it or that carries its own copy of it, for one description
\* <root>/<package>/<version>/<name>.yml.
MaxGenerators == 2  \* generators that WrapperGenerator.__subclasses__() gives

\* a path is the sequence of its parts; an argument that is None is NoPath
NoPath == <<"None">>

\* no save_to_file raises
NoFail == <<0, 0>>

Callers ==
    {"aclimatise_exe", "reanalyse_tool", "tool.generate_wrapper",
     "__init__.generate_wrapper"}

\* the two generate_wrapper, tasks of the pool of wrappers
GenerateWrappers == {"tool.generate_wrapper", "__init__.generate_wrapper"}

\* the out argument of new_definitions, the dir argument of reanalyse or the
\* command_dir argument of wrappers
Roots == {<<>>, <<"out">>, <<"data", "out">>}

WrapperRoots == {NoPath, <<"wrappers">>}

\* tool.py:75-79: out / package / version
PackageDir == <<"bwa", "0.7.17">>

\* util.py:232: the suffixes of the generators, in the order of the list
Generators == SubSeq(<<".cwl", ".wdl", ".yml">>, 1, MaxGenerators)

Command(name, n) == [as_filename |-> name, subcommands |-> n]

\* cmd.command_tree(): the command, then the commands below it
Trees ==
    {<<Command("bwa", 0)>>,
     <<Command("samtools", 2), Command("samtools_index", 0),
       Command("samtools_sort", 0)>>,
     <<Command("git", 1), Command("git_remote", 1), Command("git_remote_add", 0)>>}

Leaves(tree) == {i \in 1..Len(tree) : tree[i].subcommands = 0}

\* the process's working directory
Cwd == <<"work">>

\* Path.resolve() of a relative path
resolve(p) == Cwd \o p

\* Path.parent: the path without its last part; the parent of "." is "."
parent(p) == IF p = <<>> THEN <<>> ELSE SubSeq(p, 1, Len(p) - 1)

\* Path.relative_to raises ValueError unless r is a prefix of p
IsRelativeTo(p, r) == Len(r) <= Len(p) /\ SubSeq(p, 1, Len(r)) = r

relative_to(p, r) == SubSeq(p, Len(r) + 1, Len(p))

\* util.py:166 and the files that rglob gives: the description of the tree
DescriptionPath(root, tree) == root \o PackageDir \o <<tree[1].as_filename>>

\* the arguments with which the caller calls wrapper_from_command
\* (util.py:171-176, tool.py:52-58, tool.py:196-201 with batch.py:47-50)
CommandPath(caller, root, tree) ==
    IF caller = "tool.generate_wrapper"
    THEN resolve(DescriptionPath(root, tree))
    ELSE DescriptionPath(root, tree)

CommandRoot(caller, root, tree) ==
    CASE caller = "aclimatise_exe" ->
             parent(parent(parent(DescriptionPath(root, tree))))
      [] caller = "reanalyse_tool" ->
             parent(parent(parent(parent(DescriptionPath(root, tree)))))
      [] OTHER -> resolve(root)

WrapperRootArg(caller, wroot) ==
    IF caller = "tool.generate_wrapper" THEN resolve(wroot) ELSE wroot

\* util.py:223-225
OutputPath(wroot, command_path, command_root) ==
    wroot \o relative_to(parent(command_path), command_root)

\* __init__.py:175-178
OutputPathInit(root, tree, output_dir) ==
    IF output_dir # NoPath
    THEN resolve(output_dir)
             \o relative_to(parent(resolve(DescriptionPath(root, tree))), resolve(root))
    ELSE parent(resolve(DescriptionPath(root, tree)))

WrapperInit ==
    /\ BatchOff /\ InstallOff /\ DiscoveryOff /\ PoolOff /\ LogOff /\ CondaOff /\ ModesOff
    /\ ReanalyseOff /\ SelectOff /\ EnvOff
    /\ wr_caller \in Callers
    /\ wr_root \in Roots
    /\ wr_wrapper_root \in WrapperRoots
    /\ wr_tree \in Trees
    /\ wr_fail \in {NoFail} \cup (Leaves(wr_tree) \X (1..Len(Generators)))
    /\ wr_mkdir_ok \in BOOLEAN
    /\ wr_output = NoPath
    /\ wr_idx = 0
    /\ wr_written = {}
    /\ wr_logs = <<>>
    /\ wr_stage = "start"

\* The caller up to the loop over the command tree.
\*   aclimatise_exe (util.py:171) and reanalyse_tool (tool.py:52) call
\*     wrapper_from_command only when wrapper_root is given; reanalyse_tool has
\*     returned before when the description has sub-commands (tool.py:41-45);
\*   generate_wrapper of tool.py builds Path(output_dir), a TypeError when
\*     output_dir is None (tool.py:200);
\*   generate_wrapper of __init__.py computes output_path itself (175-180).
\* Then util.py:223-229: output_path, the info record and the mkdir, all of
\* them before the try.
WrapperEnter ==
    /\ wr_stage = "start"
    /\ LET command_path == CommandPath(wr_caller, wr_root, wr_tree)
           command_root == CommandRoot(wr_caller, wr_root, wr_tree)
           wroot == WrapperRootArg(wr_caller, wr_wrapper_root)
       IN  CASE wr_caller = "reanalyse_tool" /\ wr_tree[1].subcommands > 0 ->
                    /\ wr_stage' = "not_called"
                    /\ UNCHANGED <<wr_output, wr_idx, wr_logs>>
             [] wr_caller \in {"aclimatise_exe", "reanalyse_tool"}
                    /\ ~(wr_caller = "reanalyse_tool" /\ wr_tree[1].subcommands > 0)
                    /\ wr_wrapper_root = NoPath ->
                    /\ wr_stage' = "not_called"
                    /\ UNCHANGED <<wr_output, wr_idx, wr_logs>>
             [] wr_caller = "tool.generate_wrapper" /\ wr_wrapper_root = NoPath ->
                    /\ wr_stage' = "caller_raised"
                    /\ UNCHANGED <<wr_output, wr_idx, wr_logs>>
             [] wr_caller = "__init__.generate_wrapper" ->
                    /\ wr_output' = OutputPathInit(wr_root, wr_tree, wr_wrapper_root)
                    /\ wr_logs' = <<"info">>
                    /\ IF wr_mkdir_ok
                       THEN wr_stage' = "loop" /\ wr_idx' = 1
                       ELSE wr_stage' = "raised" /\ UNCHANGED wr_idx
             [] OTHER ->
                    IF ~IsRelativeTo(parent(command_path), command_root)
                    THEN /\ wr_stage' = "raised"
                         /\ UNCHANGED <<wr_output, wr_idx, wr_logs>>
                    ELSE /\ wr_output' = OutputPath(wroot, command_path,
                                                    command_root)
                         /\ wr_logs' = <<"info">>
                         /\ IF wr_mkdir_ok
                            THEN wr_stage' = "loop" /\ wr_idx' = 1
                            ELSE wr_stage' = "raised" /\ UNCHANGED wr_idx
    /\ UNCHANGED <<wr_caller, wr_root, wr_wrapper_root, wr_tree, wr_fail, wr_mkdir_ok,
                   wr_written>>
    /\ UNCHANGED <<batchVars, installVars, discoveryVars, poolVars, logVars, condaVars, modesVars,
                   reanalyseVars, selectVars, envVars>>

\* the records and the files of the generators 1..n for the command at i
Saved(i, n) ==
    {<<wr_output, <<wr_tree[i].as_filename, Generators[g]>>>> : g \in 1..n}

Infos(n) == [g \in 1..n |-> "info"]

\* util.py:234-249: one pass of the loop over the command tree. A command with
\* sub-commands is skipped. save_to_file of the pair wr_fail raises: the except
\* of util.py:250 logs it as an error and the function returns.
ConvertCommand ==
    /\ wr_stage = "loop"
    /\ wr_idx <= Len(wr_tree)
    /\ LET converting == IF wr_caller = "__init__.generate_wrapper"
                         THEN <<>> ELSE <<"info">>
       IN  IF wr_tree[wr_idx].subcommands > 0
           THEN /\ wr_idx' = wr_idx + 1
                /\ wr_logs' = wr_logs \o converting
                /\ UNCHANGED <<wr_written, wr_stage>>
           ELSE IF wr_fail[1] = wr_idx
           THEN /\ wr_written' = wr_written \cup Saved(wr_idx, wr_fail[2] - 1)
                /\ wr_logs' = wr_logs \o converting \o Infos(wr_fail[2] - 1)
                                  \o <<"error">>
                /\ wr_stage' = "returned"
                /\ UNCHANGED wr_idx
           ELSE /\ wr_written' = wr_written \cup Saved(wr_idx, Len(Generators))
                /\ wr_logs' = wr_logs \o converting \o Infos(Len(Generators))
                /\ wr_idx' = wr_idx + 1
                /\ UNCHANGED wr_stage
    /\ UNCHANGED <<wr_caller, wr_root, wr_wrapper_root, wr_tree, wr_fail, wr_mkdir_ok,
                   wr_output>>
    /\ UNCHANGED <<batchVars, installVars, discoveryVars, poolVars, logVars, condaVars, modesVars,
                   reanalyseVars, selectVars, envVars>>

\* the loop has passed the last command of the tree: the function returns
WrapperReturn ==
    /\ wr_stage = "loop"
    /\ wr_idx > Len(wr_tree)
    /\ wr_stage' = "returned"
    /\ UNCHANGED <<wr_caller, wr_root, wr_wrapper_root, wr_tree, wr_fail, wr_mkdir_ok,
                   wr_output, wr_idx, wr_written, wr_logs>>
    /\ UNCHANGED <<batchVars, installVars, discoveryVars, poolVars, logVars, condaVars, modesVars,
                   reanalyseVars, selectVars, envVars>>

WrapperNext == WrapperEnter \/ ConvertCommand \/ WrapperReturn

WrapperSpec == WrapperInit /\ [][WrapperNext]_vars

-----------------------------------------------------------------------------
\* InstallSpec: install of bioconda_cli with its commands_from_package calls,
\* in main.py (240-330, 360-372) and in __init__.py (49-82, 145-160) with
\* install_package and acclimatise_exe of util.py (133-231). The calls are taken
\* one after the other: pool.map runs every line and, all of them done, raises
\* the exception of the first task that raised.
MaxInstallUnits == 2    \* lines of the package file

Variants == {"main", "__init__"}

\* the current call ends with the outcome o after the step f failed (or none)
InstallEnd(fs, o) ==
    /\ in_results' = Append(in_results, <<in_failures \cup fs, o>>)
    /\ in_failures' = {}
    /\ in_stage' = "idle"
    /\ in_exes' = 0
    /\ in_installed' = FALSE

InstallGo(to) ==
    /\ in_stage' = to
    /\ UNCHANGED <<in_results, in_failures, in_exes, in_installed>>

InstallInit ==
    /\ BatchOff /\ WrapperOff /\ DiscoveryOff /\ PoolOff /\ LogOff /\ CondaOff
    /\ ModesOff /\ ReanalyseOff /\ SelectOff /\ EnvOff
    /\ in_variant \in Variants
    /\ exit_on_failure \in BOOLEAN
    /\ in_todo \in 1..MaxInstallUnits
    /\ in_stage = "idle"
    /\ in_exes = 0
    /\ in_installed = FALSE
    /\ in_failures = {}
    /\ in_results = <<>>
    /\ in_phase = "running"

\* main.py:246-251: the task takes a line; line.strip().split("=") must give
\* two parts, a ValueError otherwise, raised before any try
InstallTake ==
    /\ in_phase = "running" /\ in_stage = "idle" /\ in_todo > 0
    /\ in_todo' = in_todo - 1
    /\ \/ InstallGo("create")
       \/ InstallEnd({"split"}, "raised")
    /\ UNCHANGED <<in_variant, exit_on_failure, in_phase>>
    /\ UNCHANGED <<batchVars, wrapperVars, envVars, selectVars, reanalyseVars,
                   discoveryVars, poolVars, logVars, condaVars, modesVars>>

\* main.py:259-261, util.py:150-152: conda create of the empty environment,
\* outside every try
InstallCreate ==
    /\ in_stage = "create"
    /\ \/ InstallGo("solve")
       \/ InstallEnd({"create"}, "raised")
    /\ UNCHANGED <<in_variant, exit_on_failure, in_todo, in_phase>>
    /\ UNCHANGED <<batchVars, wrapperVars, envVars, selectVars, reanalyseVars,
                   discoveryVars, poolVars, logVars, condaVars, modesVars>>

\* solve_for_transaction. With exit_on_failure its exception is raised again.
\* Without it, main.py:271-289 prints it and returns from commands_from_package;
\* util.py:161-171 writes and prints it and returns from install_package only,
\* so commands_from_package of __init__.py goes on to get_package_binaries
\* (__init__.py:66-70).
InstallSolve ==
    /\ in_stage = "solve"
    /\ \/ InstallGo("transaction")
       \/ IF exit_on_failure
          THEN InstallEnd({"solve"}, "raised")
          ELSE IF in_variant = "main"
          THEN InstallEnd({"solve"}, "reported")
          ELSE /\ in_stage' = "discover"
               /\ in_failures' = in_failures \cup {"solve"}
               /\ UNCHANGED <<in_results, in_exes, in_installed>>
    /\ UNCHANGED <<in_variant, exit_on_failure, in_todo, in_phase>>
    /\ UNCHANGED <<batchVars, wrapperVars, envVars, selectVars, reanalyseVars,
                   discoveryVars, poolVars, logVars, condaVars, modesVars>>

\* main.py:292-294, util.py:174-176: download_and_extract and execute under
\* the lock, outside every try
InstallTransaction ==
    /\ in_stage = "transaction"
    /\ \/ /\ in_stage' = "discover"
          /\ in_installed' = TRUE
          /\ UNCHANGED <<in_results, in_failures, in_exes>>
       \/ InstallEnd({"transaction"}, "raised")
    /\ UNCHANGED <<in_variant, exit_on_failure, in_todo, in_phase>>
    /\ UNCHANGED <<batchVars, wrapperVars, envVars, selectVars, reanalyseVars,
                   discoveryVars, poolVars, logVars, condaVars, modesVars>>

\* main.py:159-181, 297-299: get_package_binaries raises unless exactly one
\* metadata file of the environment matches; none does when nothing was
\* installed. No binary: the call prints it and returns.
InstallDiscover ==
    /\ in_stage = "discover"
    /\ \/ /\ in_installed
          /\ \E n \in 0..MaxExes :
               IF n = 0
               THEN InstallEnd({}, IF in_failures = {} THEN "ok" ELSE "reported")
               ELSE /\ in_stage' = "explore"
                    /\ in_exes' = n
                    /\ UNCHANGED <<in_results, in_failures, in_installed>>
       \/ InstallEnd({"discover"}, "raised")
    /\ UNCHANGED <<in_variant, exit_on_failure, in_todo, in_phase>>
    /\ UNCHANGED <<batchVars, wrapperVars, envVars, selectVars, reanalyseVars,
                   discoveryVars, poolVars, logVars, condaVars, modesVars>>

\* The next binary. main.py:301-329: explore_command and the dump, a failure
\* being raised again with exit_on_failure and printed without it.
\* __init__.py:72-79: acclimatise_exe is called with the keyword run_kwargs,
\* which it does not take (util.py:193-198): a TypeError of the call itself.
InstallExplore ==
    /\ in_stage = "explore"
    /\ LET last == in_exes = 1
           next(fs) ==
               IF last
               THEN InstallEnd(fs, IF in_failures \cup fs = {} THEN "ok" ELSE "reported")
               ELSE /\ in_exes' = in_exes - 1
                    /\ in_failures' = in_failures \cup fs
                    /\ UNCHANGED <<in_stage, in_results, in_installed>>
       IN  IF in_variant = "__init__"
           THEN InstallEnd({"call"}, "raised")
           ELSE \/ next({})
                \/ IF exit_on_failure
                   THEN InstallEnd({"explore"}, "raised")
                   ELSE next({"explore"})
    /\ UNCHANGED <<in_variant, exit_on_failure, in_todo, in_phase>>
    /\ UNCHANGED <<batchVars, wrapperVars, envVars, selectVars, reanalyseVars,
                   discoveryVars, poolVars, logVars, condaVars, modesVars>>

Outcomes(results) == {results[k][2] : k \in 1..Len(results)}

\* main.py:362-372: pool.map is over: it returns, or raises what a task raised
InstallReturn ==
    /\ in_phase = "running" /\ in_stage = "idle" /\ in_todo = 0
    /\ in_phase' = IF "raised" \in Outcomes(in_results) THEN "raised" ELSE "returned"
    /\ UNCHANGED <<in_variant, exit_on_failure, in_todo, in_stage, in_exes, in_installed,
                   in_failures, in_results>>
    /\ UNCHANGED <<batchVars, wrapperVars, envVars, selectVars, reanalyseVars,
                   discoveryVars, poolVars, logVars, condaVars, modesVars>>

InstallNext ==
    \/ InstallTake
    \/ InstallCreate
    \/ InstallSolve
    \/ InstallTransaction
    \/ InstallDiscover
    \/ InstallExplore
    \/ InstallReturn

InstallSpec == InstallInit /\ [][InstallNext]_vars

----------------------------------------------------------------------------
\* Helpers of the properties
Range(s) == {s[k] : k \in 1..Len(s)}

FilesIn(u, fs) == {f[2] : f \in {g \in fs : g[1] = u}}

Over(r) == r.pc \in {"returned", "raised"}

InCleanupOrOver(r) == r.pc \in {"kill", "remove", "rmi", "returned", "raised"}

HasLog(r, logger, level, msg) == <<logger, level, msg>> \in r.logs

----------------------------------------------------------------------------
\* C1: once new_definitions has ended, in either mode, every line of the set to
\* process was handed to commands_from_package, whichever units failed.
C1_EveryUnitProcessed ==
    phase # "running" => \A l \in to_aclimatise : calls[l] >= 1

\* C2: no invocation of commands_from_package ends by raising, and an invocation
\* that has returned has emitted a record through the logger named after its unit.
C2_NeverRaises ==
    \A w \in Procs :
        /\ proc[w].pc # "raised"
        /\ proc[w].pc = "returned" => \E rec \in proc[w].logs : rec[1] = "unit"

\* C3: when an invocation is over, kill, remove and the image removal were each
\* called exactly once if a container was started, and never otherwise.
C3_ReleasedExactlyOnce ==
    \A w \in Procs :
        LET r == proc[w]
            n == IF r.container THEN 1 ELSE 0
        IN  Over(r) => r.kills = n /\ r.removes = n /\ r.rmis = n

\* C4: when container.kill() failed, the invocation still removes the container
\* and its image and returns without raising.
C4_ReleaseCompleteWhenKillFails ==
    \A w \in Procs :
        LET r == proc[w]
        IN  (Over(r) /\ r.killRaised) =>
                r.pc = "returned" /\ r.containerGone /\ r.imageGone

\* C5: an invocation that created its directory, started a container whose status
\* is "running" and met no failure has, when it returns, run the discovery and left
\* in the directory exactly one artifact per discovered binary.
C5_SuccessScenario ==
    \A w \in Procs :
        LET r == proc[w]
        IN  ( /\ r.pc = "returned" /\ r.passedCheck /\ r.container
              /\ r.status = "running"
              /\ r.failures = {}
              /\ ~HasLog(r, "unit", "warning", <<"exception">>) )
            => /\ r.discovered
               /\ r.unit \in dirs
               /\ FilesIn(r.unit, files) = Range(r.exes)

\* C6: the binaries of a unit are attempted in the order of discovery, all of them
\* once the loop is over, and the directory holds an artifact for exactly the
\* attempted binaries whose introspection and save did not raise.
C6_BinaryFailureIsolation ==
    \A w \in Procs :
        LET r == proc[w]
        IN  r.exes # <<>> =>
              /\ r.pc = "introspect" => r.explored = SubSeq(r.exes, 1, r.i - 1)
              /\ InCleanupOrOver(r) => r.explored = r.exes
              /\ FilesIn(r.unit, files) = Range(r.explored) \ r.failures

C6_Witness ==
    \E w \in Procs :
        LET r == proc[w]
        IN  /\ r.pc = "returned"
            /\ r.exes = <<"x", "y", "z">>
            /\ r.failures = {"y"}
            /\ FilesIn(r.unit, files) = {"x", "z"}

\* C7: for every binary whose introspection failed, a record reporting the failure
\* of that binary was logged.
C7_FailureLogged ==
    \A w \in Procs :
        \A b \in proc[w].failures :
            \E rec \in proc[w].logs :
                rec[2] \in {"warning", "error"} /\ rec[3] = <<"failed", b>>

\* C8: once new_definitions has ended, commands_from_package was called exactly
\* once on every line of the new metadata that is not in the old one, and on no
\* other line.
C8_ResumeDelta ==
    phase # "running" =>
        \A l \in Lines :
            calls[l] = IF l \in newPkgs /\ ~(last_meta /\ l \in oldPkgs) THEN 1 ELSE 0

\* C9: an invocation for a unit whose directory existed when the run began makes
\* no registry query, starts no container, discovers and introspects nothing, and
\* returns after logging that the directory exists; the contents of such a
\* directory are those it had when the run began.
C9_Idempotence ==
    /\ \A w \in Procs :
          LET r == proc[w]
          IN  (r.pc # "idle" /\ Unpacks(r.line) /\ r.unit \in dirsAtStart) =>
                /\ r.pc \in {"mkdir", "returned", "killed"}
                /\ ~r.queried /\ r.attempts = <<>> /\ ~r.container
                /\ ~r.discovered /\ r.explored = <<>>
                /\ r.pc = "returned" => r.logs = {<<"unit", "warning", <<"dir_exists">>>>}
    /\ \A u \in dirsAtStart :
          /\ FilesIn(u, files) = FilesIn(u, filesAtStart)
          /\ \A id \in wrote[u] : id[1] < run

C9_Witness ==
    /\ run = 2
    /\ phase = "returned"
    /\ to_aclimatise # {}
    /\ \A l \in to_aclimatise : calls[l] = 1 /\ Unpacks(l) /\ UnitOf(l) \in dirsAtStart
    /\ \E u \in dirsAtStart : FilesIn(u, files) # {}

\* C10: at most one invocation ever passes the directory check of a unit, so at
\* most one invocation queries, provisions and writes for it, and every artifact
\* lies in the directory of the unit of the invocation that wrote it.
C10_ExclusiveDirectory ==
    /\ \A u \in Units : passed[u] <= 1 /\ Cardinality(wrote[u]) <= 1
    /\ \A w1, w2 \in Procs :
          (w1 # w2 /\ proc[w1].passedCheck /\ proc[w2].passedCheck) =>
              proc[w1].unit # proc[w2].unit
    /\ \A w \in Procs :
          LET r == proc[w]
          IN  (r.queried \/ r.container \/ r.explored # <<>>) => r.passedCheck
    /\ \A u \in Units : \A id \in wrote[u] : UnitOf(id[2]) = u

C10_Witness ==
    \E w1, w2 \in Workers :
        /\ fork /\ w1 # w2
        /\ proc[w1].unit = proc[w2].unit
        /\ proc[w1].pc = "introspect" /\ proc[w1].passedCheck
        /\ proc[w2].pc = "returned"
        /\ HasLog(proc[w2], "unit", "warning", <<"dir_exists">>)

\* C11: for the same lines, the same initial directory and the same behaviour
\* of the external services, the call with fork=True and the call with
\* fork=False leave the same artifacts in the output directory.
C11_ModeEquivalence ==
    (seq_mode # <<>> /\ seq_mode.st # "running" /\ pool_mode.st # "running") =>
        seq_mode.files = pool_mode.files

----------------------------------------------------------------------------
\* Helpers of the provisioning properties
DockerOf(resp) == {img \in Range(resp) : img.image_type = "Docker"}

ImageOf(resp, name) == CHOOSE img \in Range(resp) : formatted_image(img.image_name) = name

IndexOf(resp, name) == CHOOSE k \in 1..Len(resp) : formatted_image(resp[k].image_name) = name

\* the attempts of invocation r follow the registry response: Docker images only,
\* none twice, none skipped, later timestamps first; Before(x, y) is the order
\* required of an earlier attempt x and a later attempt y
AttemptsFollow(r, Before(_, _)) ==
    /\ \A k \in 1..Len(r.attempts) :
          /\ \E img \in DockerOf(r.resp) : formatted_image(img.image_name) = r.attempts[k]
          /\ \A j \in 1..(k - 1) :
                /\ r.attempts[j] # r.attempts[k]
                /\ Before(ImageOf(r.resp, r.attempts[j]), ImageOf(r.resp, r.attempts[k]))
          /\ \A img \in DockerOf(r.resp) :
                img.updated > ImageOf(r.resp, r.attempts[k]).updated
                    => \E j \in 1..(k - 1) : r.attempts[j] = formatted_image(img.image_name)
    \* the next candidate is tried exactly after a NotFound, none after a start
    /\ r.pc = "provision" => Len(r.attempts) = r.notFound
    /\ r.container => r.pc # "provision" /\ Len(r.attempts) = r.notFound + 1
    /\ Len(r.attempts) <= r.notFound + 1

\* C12 as stated: only Docker images are attempted, in strictly descending order
\* of their updated timestamp, the next one exactly after a NotFound and none
\* after the first that starts.
C12_CandidateOrderStrict ==
    \A w \in Procs : AttemptsFollow(proc[w], LAMBDA x, y : x.updated > y.updated)

\* C12 amended: the order is descending but not strict; images of one timestamp
\* are attempted in the order of the registry response.
C12_CandidateOrder ==
    \A w \in Procs :
        AttemptsFollow(proc[w],
            LAMBDA x, y : \/ x.updated > y.updated
                          \/ /\ x.updated = y.updated
                             /\ IndexOf(proc[w].resp, formatted_image(x.image_name))
                                    < IndexOf(proc[w].resp, formatted_image(y.image_name)))

C12_Witness ==
    \E w \in Procs :
        /\ proc[w].container
        /\ proc[w].resp = ResponseTie
        /\ proc[w].attempts = << <<"i2">>, <<"i5">> >>

ErrorLogs(r) == {rec \in r.logs : rec[2] = "error"}

\* every candidate of invocation r has signalled NotFound (or there was none)
\* and the loop over the candidates is left
Exhausted(r) ==
    /\ HasLog(r, "unit", "info", <<"aclimatising">>)
    /\ r.notFound = Cardinality(DockerOf(r.resp))
    /\ r.pc \notin {"provision", "killed"}

\* C13: when every candidate image signals NotFound, or there is none, the
\* invocation logs exactly one error record, has returned without a container
\* and without a cleanup call, and the directory of the unit exists and is empty.
C13_ProvisioningExhausted ==
    \A w \in Procs :
        LET r == proc[w] IN
        Exhausted(r) =>
            /\ r.pc = "returned"
            /\ ErrorLogs(r) = {<<"unit", "error", <<"no_images">>>>}
            /\ ~r.container
            /\ r.kills = 0 /\ r.removes = 0 /\ r.rmis = 0
            /\ r.unit \in dirs
            /\ FilesIn(r.unit, files) = {}

C13_Witness ==
    \E w \in Procs :
        /\ Exhausted(proc[w])
        /\ proc[w].notFound = 2
        /\ proc[w].pc = "returned"

\* C14: the readiness wait sleeps for at most 60 seconds; it gives up exactly
\* when the status still reads "starting" after 60 polls, and then the invocation
\* has logged the error, does no discovery and no introspection, releases the
\* container and returns.
C14_BoundedWait ==
    \A w \in Procs :
        LET r == proc[w]
            gaveUp == HasLog(r, "unit", "error", <<"wait_timeout">>)
        IN  /\ r.waited <= ReadyCeiling * PollInterval
            /\ gaveUp <=> r.waited >= ReadyCeiling
            /\ gaveUp =>
                  /\ ~r.discovered
                  /\ r.explored = <<>>
                  /\ r.pc \in {"kill", "remove", "rmi", "returned", "killed"}
                  /\ r.pc = "returned" => r.containerGone /\ r.imageGone

\* the names of the entries that lie directly inside bin, in the order of the list
RECURSIVE DirectlyInBin(_)
DirectlyInBin(paths) ==
    IF paths = <<>> THEN <<>>
    ELSE (IF Len(Head(paths)) = 2 /\ Head(paths)[1] = "bin" THEN <<Head(paths)[2]>> ELSE <<>>)
             \o DirectlyInBin(Tail(paths))

\* C19: for every manifest with a file list, get_package_binaries returns exactly
\* the names of the entries made of two parts whose parent is bin, in the order
\* of the manifest, and nothing from a subdirectory of bin or from elsewhere.
C19_DiscoveryFilter ==
    (binaries.done /\ stdout.kind = "json") =>
        /\ ~binaries.raised
        /\ binaries.exes = DirectlyInBin(stdout.paths)

C19_Witness ==
    /\ binaries.done
    /\ stdout.kind = "json"
    /\ stdout.paths = << <<"lib", "bin", "w">>, <<"bin", "y">> >>
    /\ binaries.exes = <<"y">>

\* C20: whatever the cat of the manifest gives (no output, text that is not JSON,
\* several manifests one after the other, a document without the file list),
\* get_package_binaries returns the empty list and does not raise.
C20_DiscoveryNeverRaises ==
    (binaries.done /\ stdout.kind \in {"none", "invalid", "concat", "nofiles"}) =>
        /\ ~binaries.raised
        /\ binaries.exes = <<>>

\* C15: with max_tasks = N no worker process of the pool calls
\* commands_from_package for more than N units before it is replaced.
C15_MaxTasksPerWorker ==
    \A k \in 1..processes : workers[k].executed <= max_tasks

\* the records that the tasks ts emit through the loggers of their units
UnitRecords(ts) == {r \in Records : r[1] \in ts /\ Script[r[2]] = "unit"}

RECURSIVE Total(_, _)
Total(f, S) == IF S = {} THEN 0 ELSE LET x == CHOOSE y \in S : TRUE IN f[x] + Total(f, S \ {x})

\* C16: the records that N tasks emit through the loggers of their units, M each,
\* reach the listener whole and never twice, and once the listener has stopped
\* it has received each of the N times M records exactly once.
C16_LoggingConcurrencySafe ==
    listener # "off" =>
        /\ \A k \in 1..Len(log_queue) : log_queue[k] \in emitted \cup {Sentinel}
        /\ \A r \in Records :
              /\ received[r] <= 1
              /\ received[r] = 1 => r \in emitted /\ r \in UnitRecords(log_tasks)
        /\ listener = "stopped" =>
              /\ \A r \in UnitRecords(log_tasks) : r \in emitted /\ received[r] = 1
              /\ Total(received, Records) = Cardinality(log_tasks) * MaxRecords

\* C17: every record of a task, whichever function emits it, reaches the output
\* handlers through the queue only and exactly once: no process passes a record
\* to a handler itself, and once the listener has stopped it has passed on every
\* record emitted.
C17_SingleLogPath ==
    listener # "off" =>
        /\ \A r \in Records : direct[r] = 0
        /\ listener = "stopped" => \A r \in emitted : received[r] = 1

Installing(w) == conda_stage[w] \in {"download", "execute"}

\* C18: at most one worker at a time is in the install step (download_and_extract
\* and execute), and the lock is held by a worker exactly while it is in that
\* step: never during the creation of the environment, the solving, the
\* discovery or the introspection.
C18_LockScope ==
    lock \in Workers \cup {0} /\ conda_stage # <<>> =>
        /\ \A v, w \in Workers : Installing(v) /\ Installing(w) => v = w
        /\ \A w \in Workers : lock = w <=> Installing(w)

\* two units overlap outside the install step while a third worker, or one of
\* them later, installs: here one worker installs while the other explores
C18_Witness ==
    /\ conda_stage # <<>>
    /\ \E v, w \in Workers :
         /\ lock = v /\ conda_stage[v] = "execute"
         /\ conda_stage[w] = "explore"

\* the invocation r found the metadata of its package and no binary in it
ZeroBinaries(r) ==
    /\ r.discovered
    /\ HasLog(r, "unit", "info", <<"binaries_found">>)
    /\ r.exes = <<>>

\* C21: when discovery returns no binary, the invocation introspects nothing and
\* writes no artifact, reports the empty package in a record of level info or
\* warning and in no record of level error, goes on to the release of the
\* container and returns.
C21_DiscoveryEmpty ==
    \A w \in Procs :
        LET r == proc[w]
        IN  (r.pc # "idle" /\ ZeroBinaries(r)) =>
              /\ r.explored = <<>>
              /\ Id(w) \notin wrote[r.unit]
              /\ \E lvl \in {"info", "warning"} :
                    HasLog(r, "unit", lvl, <<"no_executables">>)
              /\ ErrorLogs(r) = {}
              /\ InCleanupOrOver(r) /\ r.pc # "raised"

\* the invocation r has read the state of its container and left the gate
PastGate(r) == r.container /\ r.status \in Statuses /\ r.pc # "gate"

\* C26: an invocation goes on to discovery exactly when the container is in
\* state "running": a discovery was made on a running container only, and an
\* invocation that is past the gate with a container in any other state has
\* logged the error record and made no discovery.
C26_StatusGate ==
    \A w \in Procs :
        LET r == proc[w]
        IN  /\ r.discovered => r.status = "running"
            /\ (PastGate(r) /\ r.status # "running") =>
                  /\ \/ HasLog(r, "unit", "error", <<"not_running">>)
                     \/ HasLog(r, "unit", "warning", <<"exception">>)
                  /\ ~r.discovered
                  /\ InCleanupOrOver(r)
            /\ (PastGate(r) /\ r.status = "running") =>
                  HasLog(r, "unit", "info", <<"finding_binaries">>)

\* C27: every discovery and every introspection of an invocation is made on a
\* container that was started, and before the release begins: an invocation
\* that is about to discover or introspect has a started container and has
\* called neither kill nor remove nor the removal of the image, and once kill
\* was called the invocation is in the release sequence or over.
C27_LifetimeOrdering ==
    \A w \in Procs :
        LET r == proc[w]
        IN  /\ (r.discovered \/ r.explored # <<>>) =>
                  r.container /\ HasLog(r, "unit", "info", <<"started">>)
            /\ r.pc \in {"gate", "discover", "introspect"} =>
                  r.container /\ r.kills = 0 /\ r.removes = 0 /\ r.rmis = 0
            /\ (r.kills > 0 \/ r.removes > 0 \/ r.rmis > 0) =>
                  r.pc \in {"remove", "rmi", "returned", "raised", "killed"}

\* an invocation that discovered and introspected has released its container
C27_Witness ==
    \E w \in Procs :
        /\ proc[w].pc = "returned"
        /\ proc[w].discovered /\ proc[w].explored # <<>>
        /\ proc[w].kills = 1 /\ proc[w].containerGone /\ proc[w].imageGone

\* C29: the directory of a unit is created before the registry is queried and
\* before any container is provisioned, and an invocation passes the directory
\* check only for a unit whose directory did not exist: once an invocation has
\* passed the check for a unit, in this run or in an earlier one, no other
\* invocation queries, provisions or writes for it, whatever became of the
\* first, so that a directory may exist with no artifact in it.
C29_DirectoryBeforeQuery ==
    /\ \A w \in Procs :
          LET r == proc[w]
          IN  /\ (r.queried \/ r.attempts # <<>> \/ r.container) =>
                    r.passedCheck /\ r.unit \in dirs
              /\ r.passedCheck => r.unit \notin dirsAtStart /\ passed[r.unit] = 1
              /\ (r.pc # "idle" /\ Unpacks(r.line) /\ ~r.passedCheck) =>
                    ~r.queried /\ r.attempts = <<>> /\ r.explored = <<>>
    /\ \A u \in Units :
          /\ passed[u] >= 1 => u \in dirs
          /\ (run > 1 /\ u \in dirsAtStart) =>
                FilesIn(u, files) = FilesIn(u, filesAtStart)

\* the second run skips a unit whose first attempt left an empty directory
C29_Witness ==
    /\ run = 2
    /\ \E w \in Procs :
         /\ proc[w].pc = "returned"
         /\ HasLog(proc[w], "unit", "warning", <<"dir_exists">>)
         /\ proc[w].unit \in dirsAtStart
         /\ passed[proc[w].unit] = 1
         /\ FilesIn(proc[w].unit, files) = {}

\* C30: the record "Successfully written to YAML" for a binary is emitted only
\* when the artifact of that binary was written: never for a binary whose
\* introspection or save raised.
C30_WrittenLogTruthful ==
    \A w \in Procs :
        LET r == proc[w]
        IN  \A exe \in Range(r.exes) :
              HasLog(r, "util", "info", <<"written", exe>>) =>
                  /\ exe \notin r.failures
                  /\ <<r.unit, exe>> \in files

\* the stored description c has a help text that is not empty and no sub-command
Rewritable(c) == c.help_text \notin {"None", ""} /\ c.subcommands = 0

\* the call of reanalyse_tool for f is over and did not raise
Reanalysed(f) == f \in opened /\ f \notin re_raised

C23_ReanalysisIsolation ==
    re_phase # "off" =>
        /\ re_phase # "raised"
        /\ re_phase \in {"returned", "raised"} => to_reanalyse \subseteq opened

\* the version a is later than the version b: at the first place where they
\* differ, a release that has ended counting as zeros
At(v, k) == IF k <= Len(v) THEN v[k] ELSE 0

Later(a, b) ==
    \E k \in 1..(Len(a) + Len(b)) :
        /\ At(a, k) > At(b, k)
        /\ \A j \in 1..(k - 1) : At(a, j) = At(b, j)

\* C28: with both metadata files given, reanalyse goes on to the stored files
\* only if the new aclimatise_version is later than the old one; if it is equal
\* or older, reanalyse logs a warning and opens and changes no stored file.
\* With either metadata file absent, or with a later new version, every .yml
\* file under the directory, and no other file, is handed over for reanalysis.
C28_VersionGate ==
    re_phase \notin {"off", "start"} =>
        LET both == new_meta # NoMeta /\ old_meta # NoMeta IN
        /\ (both /\ ~Later(new_meta, old_meta)) =>
              /\ re_phase = "skipped"
              /\ <<Coordinator, "warning", <<"skipping">>>> \in re_logs
              /\ opened = {} /\ rewritten = {} /\ to_reanalyse = {}
              /\ stored = stored_at_start /\ wrapper_dir = {}
        /\ (~both \/ Later(new_meta, old_meta)) =>
              /\ re_phase # "skipped"
              /\ to_reanalyse = {f \in DOMAIN stored : stored[f].suffix = "yml"}
              /\ opened \subseteq to_reanalyse

\* the gate is shut by two spellings of the same version
C28_Witness ==
    /\ re_phase = "skipped"
    /\ new_meta = <<1, 2, 0>> /\ old_meta = <<1, 2>>

\* the gate is open for a later version and a file was rewritten
C28_WitnessOpen ==
    /\ re_phase = "returned"
    /\ new_meta = <<1, 10>> /\ old_meta = <<1, 2>>
    /\ rewritten # {}

\* the package p of the search passes the R filter and the tool-class filter
Passes(p) ==
    /\ ~(filter_r /\ (Head(p) = "r-" \/ Head(p) = "bioconductor-"))
    /\ filter_type # {} => search_json[p].toolclass \in filter_type

\* C24: latest_biocontainers returns, and its list has exactly one entry for
\* each package of the search that passes the R filter and the tool-class
\* filter, with a version of the package than which none of its versions is
\* later, and no entry for any other package.
C24_TargetSelection ==
    (search_json # <<>> /\ images # Pending) =>
        /\ images.state = "returned"
        /\ \A p \in DOMAIN search_json :
              LET entries == {e \in images.list : e[1] = p} IN
              IF Passes(p)
              THEN /\ Cardinality(entries) = 1
                   /\ \A e \in entries :
                         /\ e[2] \in Range(search_json[p].versions)
                         /\ \A v \in Range(search_json[p].versions) : ~Later(v, e[2])
              ELSE entries = {}
        /\ \A e \in images.list : e[1] \in DOMAIN search_json

\* the same for a search output of the shape that the loop reads
C24_OnDictShape ==
    (search_json # <<>> /\ \A p \in DOMAIN search_json : search_json[p].shape = "dict")
        => C24_TargetSelection

\* the call of worker w is inside the with block of its temporary directory
InPrefix(w) == conda_stage[w] \notin {"idle", "returned", "raised"}

C31_ListenerStopped ==
    re_phase \in {"returned", "skipped", "raised"} => re_listener = "stopped"

\* how many times the record r was put on the queue
RECURSIVE CountIn(_, _)
CountIn(q, r) ==
    IF q = <<>> THEN 0 ELSE (IF Head(q) = r THEN 1 ELSE 0) + CountIn(Tail(q), r)

Enqueued(r) == received[r] + CountIn(log_queue, r)

\* C32: after the setup at the start of a task the logger of the task has
\* exactly one queue handler, however many tasks the process has run and also
\* when the name of the unit was seen before, and every record that a task
\* emits through that logger is put on the queue exactly once.
C32_OneQueueHandler ==
    listener # "off" =>
        /\ \A p \in Procs :
              running[p] # NoTask => registry[p][strip(running[p].line)] = 1
        /\ \A r \in emitted : Script[r[2]] = "unit" => Enqueued(r) = 1

\* C33: the install lock is released whenever a worker leaves the critical
\* section, by its end or by an exception of download_and_extract or of
\* execute, so that the lock is never held by a worker that is outside it, and
\* every worker that waits for the lock acquires it in the end.
C33_LockReleased ==
    /\ [](\A w \in Workers : (conda_stage # <<>> /\ lock = w) => Installing(w))
    /\ \A w \in Workers :
          (conda_stage # <<>> /\ conda_stage[w] = "solved") ~> (lock = w)

\* a worker waits for the lock while another worker is in the critical section
C33_Witness ==
    /\ conda_stage # <<>>
    /\ \E v, w \in Workers :
         /\ conda_stage[w] = "solved"
         /\ lock = v /\ v # w /\ conda_stage[v] = "download"

\* C34: when the block of activate_env is over, by its end, by a return or by
\* an exception, and also when the entry itself raises, os.environ is what it
\* was before the block; and inside the block of a unit no variable holds the
\* prefix of an earlier unit of the worker.
C34_FramePreserving ==
    env_stage # "off" =>
        /\ env_stage \in {"after", "entry_raised"} => environ = env_before
        /\ env_stage = "inside" =>
              \A k \in Keys : \A j \in 1..(env_unit - 1) :
                  Prefix(j) \notin Range(environ[k])

\* the wrapper files of every pair of a command without sub-commands and a
\* generator, in the directory dir
Expected(tree, dir) ==
    {<<dir, <<tree[i].as_filename, Generators[g]>>>> :
        i \in Leaves(tree), g \in 1..Len(Generators)}

\* C35: when the generation of the wrappers of a command tree has returned, the
\* files written are exactly one per pair of a command without sub-commands
\* and a generator, named by the command's filename and the generator's
\* suffix, with none for a command that has sub-commands; and an exception of
\* a generator has been logged as an error and has not propagated.
C35_LeavesOnly ==
    wr_stage = "returned" =>
        /\ wr_written = Expected(wr_tree, wr_output)
        /\ wr_fail # NoFail => "error" \in Range(wr_logs)

\* C36: the wrappers of the first processing of a unit (aclimatise_exe) and
\* those of the reanalysis of its description (reanalyse_tool) go to the same
\* directory, wrapper_root/<package>/<version>.
C36_PathConsistency ==
    (wr_caller \in {"aclimatise_exe", "reanalyse_tool"} /\ wr_output # NoPath) =>
        wr_output = wr_wrapper_root \o PackageDir

\* C37: a generate_wrapper task of wrappers raises neither with an output_dir
\* nor without one (the directory being creatable); without one the wrappers
\* go next to the description, with one to the same structure below it; and
\* every description is converted.
C37_OptionalOutputDir ==
    (wr_caller \in GenerateWrappers /\ wr_mkdir_ok) =>
        /\ wr_stage \notin {"raised", "caller_raised"}
        /\ wr_output # NoPath =>
              wr_output = IF wr_wrapper_root = NoPath
                          THEN resolve(wr_root \o PackageDir)
                          ELSE resolve(wr_wrapper_root \o PackageDir)
        /\ (wr_stage = "returned" /\ wr_fail = NoFail) =>
              wr_written = Expected(wr_tree, wr_output)

\* the finished calls in which the step f failed
FailedAt(f) == {k \in 1..Len(in_results) : f \in in_results[k][1]}

\* C38: install ends with the failure of a package if and only if
\* exit_on_failure is set: with it set, a call in which a step failed has
\* raised, and install raises once the map is over; with it unset, install
\* does not raise, and a call whose dependency solve or whose exploration of a
\* binary failed has reported it and returned, the batch taking every line.
C38_ExitOnFailure ==
    in_phase # "off" =>
        /\ in_phase = "raised" => exit_on_failure
        /\ exit_on_failure =>
              /\ \A k \in 1..Len(in_results) :
                    in_results[k][1] # {} => in_results[k][2] = "raised"
              /\ (in_phase = "returned") => \A k \in 1..Len(in_results) :
                    in_results[k][1] = {}
        /\ ~exit_on_failure =>
              /\ \A k \in FailedAt("solve") \cup FailedAt("explore") :
                    in_results[k][2] = "reported"
              /\ in_phase \in {"returned", "raised"} => in_todo = 0
====
